---- MODULE Spec2Model ----
(***************************************************************************)
(* Trust and credential management of restaurant-voice-ai:                 *)
(*   - utils/encryption.js      encrypt / decrypt (AES-256-GCM envelope)   *)
(*   - auth/token-manager.js    tokenStore, storeTokens, getAccessToken,   *)
(*                              removeTokens, autoRefreshSquareTokens      *)
(*   - auth/square-oauth.js     csrfTokens, authorize, callback            *)
(*   - webhooks/square-webhook.js  verifySignature, handleWebhook,         *)
(*                              processEvent, processedEvents              *)
(*                                                                         *)
(* Node runs one JavaScript job at a time: a handler runs without          *)
(* interruption up to its next await of an external call (fetch), so an    *)
(* action of this module is one such run-to-completion segment.            *)
(***************************************************************************)
EXTENDS Integers, Sequences, FiniteSets, TLC

(***************************************************************************)
(* Values.  A JavaScript string is the sequence of its code points.  The   *)
(* falsy values a token field can hold (undefined, null, '') are one       *)
(* value, the empty sequence.                                              *)
(***************************************************************************)
NoToken == << >>

\* No string is on its way from encrypt to decrypt.
NoBox == [pc |-> "idle", plaintext |-> << >>, seed |-> 0, kind |-> "", at |-> 0, digit |-> 0, opaque |-> << >>, presented |-> << >>, result |-> << >>]

\* What decrypt's caller sees when decrypt throws Error('Decryption failed').
DecryptionFailed == << -1 >>

\* req.query.restaurant_id is optional: undefined when absent.
NoRestaurant == "undefined"

\* process.env.SQUARE_WEBHOOK_SIGNATURE_KEY when it is not set.
NoKey == << >>

\* No answer of handleWebhook.
NoWebhookResponse == [status |-> 0, eventId |-> 0]

\* No run of autoRefreshSquareTokens yet: the merchants whose square record
\* was stored when the run started, those getAccessToken was called for, those
\* whose call failed, and those whose record was removed during the run.
NoSweepLog == [started |-> {}, attempted |-> {}, failed |-> {}, gone |-> {}]

\* No webhook request.
NoRequest == [body |-> << >>, signature |-> << >>]

\* No JSON Web Token: an undefined token, and the fields a payload lacks.
NoJwt == [parts |-> 0, userId |-> "", type |-> "", jti |-> 0, iat |-> 0, exp |-> 0, sig |-> 0]

\* req.user when no middleware has set it.
NoUser == ""

\* No call of jwt-auth.js has returned.
NoJwtRet == [op |-> "", token |-> NoJwt, at |-> 0, outcome |-> "", message |-> "", accessToken |-> NoJwt, refreshToken |-> NoJwt, status |-> 0, user |-> NoUser, next |-> FALSE]

\* No API key: undefined, and process.env.DEFAULT_API_KEY when it is not set.
NoSecret == << >>

\* null and undefined in a field of an API key record.
Null == -1

\* verifyApiKey's null.
NoKeyData == [id |-> "", keyHash |-> << >>, scopes |-> {}, createdAt |-> Null, expiresAt |-> Null, lastUsedAt |-> Null, active |-> FALSE, revokedAt |-> Null]

\* No call of api-key-auth.js has returned.
NoKeyRet == [op |-> "", apiKey |-> NoSecret, keyId |-> "", scope |-> "", at |-> 0, key |-> NoSecret, keyData |-> NoKeyData, found |-> FALSE, status |-> 0, next |-> FALSE]

(***************************************************************************)
(* Bounds of the model.                                                    *)
(***************************************************************************)
\* randomBytes(IV_LENGTH) draws one of MaxNonce + 1 nonces.
MaxNonce == 0
\* Concurrent request handlers calling getAccessToken (the sweep is caller 0).
MaxRequests == 1
\* Token pairs the platform issues (exchange and refresh responses).
MaxIssued == 2
\* CSRF states authorize issues.
MaxStates == 2
\* OAuth callback requests in flight at once.
MaxCallbacks == 2
\* Clock advances.
MaxTicks == 2
\* Webhook requests delivered.
MaxDeliveries == 3
\* Logins: token pairs generateTokenPair signs.
MaxPairs == 2
\* Clock advances of the JWT module.
MaxJwtTicks == 3
\* API keys generateApiKey makes.
MaxKeys == 2
\* Days the clock runs with no request traffic.
MaxDays == 14
\* Clock advances of the API-key module.
MaxKeyTicks == 2

(***************************************************************************)
(* utils/encryption.js                                                     *)
(***************************************************************************)
IV_LENGTH == 16
AUTH_TAG_LENGTH == 16

\* The digit '=' of base64 padding; the digits proper are 0..63.
Pad == 64

RECURSIVE SumSeq(_)
SumSeq(s) == IF Len(s) = 0 THEN 0 ELSE s[1] + SumSeq(Tail(s))

\* Buffer.from(str, 'utf8'): one byte below U+0080, two below U+0800.
RECURSIVE Utf8Encode(_)
Utf8Encode(str) ==
    IF Len(str) = 0 THEN << >>
    ELSE (IF str[1] < 128 THEN << str[1] >>
          ELSE << 192 + (str[1] \div 64), 128 + (str[1] % 64) >>)
         \o Utf8Encode(Tail(str))

\* buf.toString('utf8'): a byte that starts no valid sequence decodes to U+FFFD.
RECURSIVE Utf8Decode(_)
Utf8Decode(b) ==
    IF Len(b) = 0 THEN << >>
    ELSE IF b[1] < 128 THEN << b[1] >> \o Utf8Decode(Tail(b))
    ELSE IF b[1] >= 194 /\ b[1] < 224 /\ Len(b) >= 2 /\ b[2] >= 128 /\ b[2] < 192
         THEN << (b[1] - 192) * 64 + (b[2] - 128) >> \o Utf8Decode(SubSeq(b, 3, Len(b)))
    ELSE << 65533 >> \o Utf8Decode(Tail(b))

\* buf.toString('base64')
RECURSIVE Base64Encode(_)
Base64Encode(b) ==
    IF Len(b) = 0 THEN << >>
    ELSE IF Len(b) = 1 THEN << b[1] \div 4, (b[1] % 4) * 16, Pad, Pad >>
    ELSE IF Len(b) = 2
         THEN << b[1] \div 4, (b[1] % 4) * 16 + (b[2] \div 16), (b[2] % 16) * 4, Pad >>
    ELSE << b[1] \div 4, (b[1] % 4) * 16 + (b[2] \div 16),
            (b[2] % 16) * 4 + (b[3] \div 64), b[3] % 64 >>
         \o Base64Encode(SubSeq(b, 4, Len(b)))

\* Buffer.from(str, 'base64'): decoding stops at the padding; a trailing group
\* of two or three digits still yields one or two bytes.
RECURSIVE Base64Decode(_)
Base64Decode(s) ==
    IF Len(s) < 2 \/ s[1] = Pad \/ s[2] = Pad THEN << >>
    ELSE LET c == IF Len(s) >= 3 THEN s[3] ELSE Pad
             d == IF Len(s) >= 4 THEN s[4] ELSE Pad
         IN  << s[1] * 4 + (s[2] \div 16) >>
             \o (IF c = Pad THEN << >>
                 ELSE << (s[2] % 16) * 16 + (c \div 4) >>
                      \o (IF d = Pad THEN << >>
                          ELSE << (c % 4) * 64 + d >>
                               \o Base64Decode(SubSeq(s, 5, Len(s)))))

\* The 256-bit key getKey() derives from ENCRYPTION_KEY, as one number.
getKey == 171

\* crypto.randomBytes(IV_LENGTH): the nonce drawn, one per seed.
RandomIv(seed) == [i \in 1..IV_LENGTH |-> (seed * IV_LENGTH + i) % 256]

(***************************************************************************)
(* crypto.createCipheriv('aes-256-gcm', key, iv): AES-GCM is a counter     *)
(* mode, byte i of the text is combined with byte i of a key stream that   *)
(* key and iv determine, and the tag authenticates key, iv and ciphertext. *)
(* The stream and the tag are arithmetic stand-ins for AES and GHASH.      *)
(***************************************************************************)
\* Byte i of the key stream, from the stream's seed.
KeyStream(seed, i) == (seed + 7 * i) % 256

StreamSeed(key, iv) == key + SumSeq(iv)

GcmTag(key, iv, ct) ==
    LET t == key + SumSeq(iv) + SumSeq(ct) + Len(ct)
    IN  [j \in 1..AUTH_TAG_LENGTH |-> (t + j) % 256]

CipherUpdate(key, iv, pt) ==
    LET seed == StreamSeed(key, iv)
    IN  [i \in 1..Len(pt) |-> (pt[i] + KeyStream(seed, i)) % 256]

DecipherUpdate(key, iv, ct) ==
    LET seed == StreamSeed(key, iv)
    IN  [i \in 1..Len(ct) |-> (ct[i] + 256 - KeyStream(seed, i)) % 256]

\* encrypt(plaintext) with the nonce randomBytes returned.
encrypt(plaintext, seed) ==
    IF plaintext = NoToken THEN NoToken
    ELSE LET iv == RandomIv(seed)
             key == getKey
             \* cipher.update(plaintext, 'utf8', 'base64') + cipher.final('base64')
             encrypted == Base64Encode(CipherUpdate(key, iv, Utf8Encode(plaintext)))
             bytes == Base64Decode(encrypted)
             authTag == GcmTag(key, iv, bytes)
             combined == iv \o authTag \o bytes
         IN  Base64Encode(combined)

\* buf.subarray(start, end): the bytes from offset start up to, not including,
\* offset end, both clamped to the buffer's length.
Subarray(buf, start, end) ==
    LET from == IF start > Len(buf) THEN Len(buf) ELSE start
        to == IF end > Len(buf) THEN Len(buf) ELSE end
    IN  SubSeq(buf, from + 1, to)

\* A decrypt that takes the auth tag from the front of the envelope and the IV
\* after it, the reverse of the order encrypt writes them in.
decryptTagFirst(encryptedData) ==
    IF encryptedData = NoToken THEN NoToken
    ELSE LET combined == Base64Decode(encryptedData)
             authTag == Subarray(combined, 0, AUTH_TAG_LENGTH)
             iv == Subarray(combined, AUTH_TAG_LENGTH, AUTH_TAG_LENGTH + IV_LENGTH)
             encrypted == Subarray(combined, IV_LENGTH + AUTH_TAG_LENGTH, Len(combined))
             key == getKey
         IN  IF Len(iv) = IV_LENGTH /\ Len(authTag) = AUTH_TAG_LENGTH
                /\ authTag = GcmTag(key, iv, encrypted)
             THEN Utf8Decode(DecipherUpdate(key, iv, encrypted))
             ELSE DecryptionFailed

\* A decrypt that does not compare the auth tag.
decryptUnauthenticated(encryptedData) ==
    IF encryptedData = NoToken THEN NoToken
    ELSE LET combined == Base64Decode(encryptedData)
             iv == Subarray(combined, 0, IV_LENGTH)
             authTag == Subarray(combined, IV_LENGTH, IV_LENGTH + AUTH_TAG_LENGTH)
             encrypted == Subarray(combined, IV_LENGTH + AUTH_TAG_LENGTH, Len(combined))
             key == getKey
         IN  IF Len(iv) = IV_LENGTH /\ Len(authTag) = AUTH_TAG_LENGTH
             THEN Utf8Decode(DecipherUpdate(key, iv, encrypted))
             ELSE DecryptionFailed

\* decrypt(encryptedData): the plaintext, or DecryptionFailed when it throws.
decrypt(encryptedData) ==
    IF encryptedData = NoToken THEN NoToken
    ELSE LET combined == Base64Decode(encryptedData)
             iv == Subarray(combined, 0, IV_LENGTH)
             authTag == Subarray(combined, IV_LENGTH, IV_LENGTH + AUTH_TAG_LENGTH)
             encrypted == Subarray(combined, IV_LENGTH + AUTH_TAG_LENGTH, Len(combined))
             key == getKey
         IN  IF Len(iv) = IV_LENGTH /\ Len(authTag) = AUTH_TAG_LENGTH
                /\ authTag = GcmTag(key, iv, encrypted)
             THEN Utf8Decode(DecipherUpdate(key, iv, encrypted))
             ELSE DecryptionFailed

(***************************************************************************)
(* Inputs and the clock.                                                   *)
(***************************************************************************)
Platforms == {"square", "toast"}
Merchants == {"m1", "m2"}
Restaurants == {"rest_1", NoRestaurant}
Nonces == 0..MaxNonce

\* The n-th token pair of the platform: "A<n>" and "R<n>".
AccessTokenOf(n) == << 65, 48 + n >>
RefreshTokenOf(n) == << 82, 48 + n >>

\* 24 * 60 * 60 * 1000 (getAccessToken) and 600000 (authorize), milliseconds.
OneDayMs == 24 * 60 * 60 * 1000
CsrfMaxAgeMs == 600000

\* The clock's k-th advance: ten minutes, then one millisecond, in turn, so
\* that an age of exactly 600000 ms and one of 600001 ms both occur.
TickSize(k) == IF k % 2 = 1 THEN CsrfMaxAgeMs ELSE 1
\* The expires_at instants token responses and storeTokens calls carry: one
\* day after the clock's first and second advance, so that each is outside the
\* refresh window at first and enters it as the clock advances.
ExpiresAtChoices == {OneDayMs + CsrfMaxAgeMs, OneDayMs + CsrfMaxAgeMs + 1}

\* Callers of getAccessToken: 0 is autoRefreshSquareTokens, the others are
\* request handlers (api/square-api.js).
SweepCaller == 0
Callers == 0..MaxRequests
CallbackIds == 1..MaxCallbacks
\* A state parameter: 0 was never issued, s > 0 is the s-th randomBytes(32).
StateParams == 0..MaxStates
\* The event_id of the webhook events delivered.
EventIds == {1001, 1002, 1003}

VARIABLES
    now,          \* Date.now()
    ticks,        \* clock advances so far
    tokenStore,   \* token-manager.js tokenStore: the Map's entries in insertion order
    csrfTokens,   \* square-oauth.js csrfTokens: state -> {timestamp, restaurantId}
    nextState,    \* states authorize has issued (each randomBytes(32) is new)
    issued,       \* token pairs the platform has issued
    gat,          \* the getAccessToken call each caller awaits
    sweep,        \* autoRefreshSquareTokens: its position in tokenStore.entries()
    cb,           \* the callback request each connection awaits
    ret,          \* what the step just taken returned or answered, if it ended a call
    exchanged,    \* history: per state, callbacks that reached exchangeCodeForTokens
    lastStored,   \* history: per key, what the latest storeTokens was given
    authorizedFor, \* history: per state, the restaurant_id authorize was called with
    sweepLog      \* history: the latest run of autoRefreshSquareTokens

vaultVars == << now, ticks, tokenStore, csrfTokens, nextState, issued, gat, sweep,
                cb, ret, exchanged, lastStored, authorizedFor, sweepLog >>

VARIABLES
    SIGNATURE_KEY,    \* process.env.SQUARE_WEBHOOK_SIGNATURE_KEY, << >> when unset
    processedEvents,  \* square-webhook.js processedEvents: the Set's ids in insertion order
    immediateQueue,   \* events whose setImmediate callback has not run yet
    deliveries,       \* webhook requests received so far
    response,         \* what handleWebhook answered to the request just received
    handled,          \* history: per event id, times a downstream handler was entered
    evicted,          \* history: ids the cleanup removed from processedEvents
    request,          \* history: body and signature header of the request just received
    answered,         \* history: per request, the statuses of the responses sent for it
    started,          \* history: setImmediate callbacks that have run
    warnings          \* console.warn('Webhook signature verification skipped ...') calls so far

hookVars == << SIGNATURE_KEY, processedEvents, immediateQueue, deliveries, response,
               handled, evicted, request, answered, started, warnings >>

VARIABLES
    refreshTokenStore, \* jwt-auth.js refreshTokenStore: jti -> {userId, createdAt, expiresAt}
    nextJti,           \* refresh tokens generated so far (each randomUUID() is new)
    jwtIssued,         \* the tokens generateTokenPair has returned
    jwtRet,            \* what the jwt-auth.js call just made returned or answered
    revoked            \* history: the tokens revokeRefreshToken returned true for

jwtVars == << refreshTokenStore, nextJti, jwtIssued, jwtRet, revoked >>

VARIABLES
    DEFAULT_API_KEY,   \* process.env.DEFAULT_API_KEY, << >> when unset
    apiKeys,           \* api-key-auth.js apiKeys: map key -> key record
    nextKey,           \* API keys generated so far (each randomBytes is new)
    keyRet             \* what the api-key-auth.js call just made returned

keyVars == << DEFAULT_API_KEY, apiKeys, nextKey, keyRet >>

authVars == << jwtVars, keyVars >>

VARIABLES
    lifecycle,         \* server.js: "running", "closing" after server.close(), "exited"
    box                \* an encrypt output on its way to decrypt, and what decrypt returned

\* The vault's variables but the clock.
vaultRest == << tokenStore, csrfTokens, nextState, issued, gat, sweep, cb, ret,
               exchanged, lastStored, authorizedFor, sweepLog >>

(***************************************************************************)
(* auth/token-manager.js                                                   *)
(***************************************************************************)
KeyOf(platform, merchantId) == platform \o "_" \o merchantId

\* Map.has / Map.get / Map.set / Map.delete on the entries in insertion order.
MapIndex(store, key) ==
    LET found == {i \in 1..Len(store) : store[i].key = key}
    IN  IF found = {} THEN 0 ELSE CHOOSE i \in found : TRUE

MapHas(store, key) == MapIndex(store, key) # 0

MapGet(store, key) == store[MapIndex(store, key)]

MapSet(store, rec) ==
    IF MapHas(store, rec.key)
    THEN [store EXCEPT ![MapIndex(store, rec.key)] = rec]
    ELSE Append(store, rec)

MapDelete(store, key) ==
    IF MapHas(store, key)
    THEN LET i == MapIndex(store, key)
         IN  SubSeq(store, 1, i - 1) \o SubSeq(store, i + 1, Len(store))
    ELSE store

\* storeTokens(tokenData): the store after it.
\* A storeTokens that writes the tokens as they were passed in.
storeTokensPlain(store, tokenData, seedA, seedR, time) ==
    MapSet(store,
           [key |-> KeyOf(tokenData.platform, tokenData.merchantId),
            platform |-> tokenData.platform,
            merchantId |-> tokenData.merchantId,
            accessToken |-> tokenData.accessToken,
            refreshToken |-> tokenData.refreshToken,
            expiresAt |-> tokenData.expiresAt,
            restaurantId |-> tokenData.restaurantId,
            updatedAt |-> time])

storeTokens(store, tokenData, seedA, seedR, time) ==
    MapSet(store,
           [key |-> KeyOf(tokenData.platform, tokenData.merchantId),
            platform |-> tokenData.platform,
            merchantId |-> tokenData.merchantId,
            accessToken |-> IF tokenData.accessToken # NoToken
                            THEN encrypt(tokenData.accessToken, seedA) ELSE NoToken,
            refreshToken |-> IF tokenData.refreshToken # NoToken
                             THEN encrypt(tokenData.refreshToken, seedR) ELSE NoToken,
            expiresAt |-> tokenData.expiresAt,
            restaurantId |-> tokenData.restaurantId,
            updatedAt |-> time])

\* A refresh test that leaves out the instant exactly one day before expiry.
NeedsRefreshStrict(platform, tokenData, time) ==
    platform = "square" /\ tokenData.expiresAt < time + OneDayMs

\* getAccessToken line 64: refresh if expired or expiring within 1 day.
NeedsRefresh(platform, tokenData, time) ==
    platform = "square" /\ tokenData.expiresAt <= time + OneDayMs

NoResponse == [ok |-> FALSE, accessToken |-> NoToken, refreshToken |-> NoToken,
               expiresAt |-> 0, merchantId |-> ""]

IdleCall == [pc |-> "idle", platform |-> "", merchantId |-> "", restaurantId |-> "",
             sent |-> NoToken, resp |-> NoResponse, result |-> NoToken, error |-> ""]

\* getAccessToken(platform, merchantId) up to its return, its throw or its
\* await of refreshAccessToken: the caller's frame after it.
GetAccessTokenStart(store, platform, merchantId, time) ==
    LET key == KeyOf(platform, merchantId)
        call == [IdleCall EXCEPT !.platform = platform, !.merchantId = merchantId]
        i == MapIndex(store, key)
    IN  IF i = 0
        THEN [call EXCEPT !.pc = "threw", !.error = "No tokens found"]
        ELSE LET tokenData == store[i]
             IN  IF NeedsRefresh(platform, tokenData, time)
                 THEN LET decryptedRefreshToken == decrypt(tokenData.refreshToken)
                      IN  IF decryptedRefreshToken = DecryptionFailed
                          THEN [call EXCEPT !.pc = "threw",
                                   !.error = "Access token expired and refresh failed"]
                          ELSE [call EXCEPT !.pc = "refreshing",
                                            !.restaurantId = tokenData.restaurantId,
                                            !.sent = decryptedRefreshToken]
                 ELSE LET accessToken == decrypt(tokenData.accessToken)
                      IN  IF accessToken = DecryptionFailed
                          THEN [call EXCEPT !.pc = "threw", !.error = "Decryption failed"]
                          ELSE [call EXCEPT !.pc = "returned", !.result = accessToken]

InFlight(call) == call.pc \in {"refreshing", "exchanging", "responded"}

\* autoRefreshSquareTokens' loop from entry pos on: the first entry whose
\* getAccessToken awaits a refresh, 0 when the loop runs to its end.  A call
\* that returns or throws without awaiting fetch resumes the loop in the same
\* job (its promise is already settled), and changes nothing.
RECURSIVE SweepScan(_, _, _)
SweepScan(store, pos, time) ==
    IF pos > Len(store) THEN 0
    ELSE IF NeedsRefresh(store[pos].platform, store[pos], time)
            /\ decrypt(store[pos].refreshToken) # DecryptionFailed
         THEN pos
    ELSE SweepScan(store, pos + 1, time)

IdleSweep == [pc |-> "idle", pos |-> 0]

SweepAfter(store, pos, time) ==
    LET i == SweepScan(store, pos, time)
    IN  IF i = 0 THEN IdleSweep ELSE [pc |-> "awaiting", pos |-> i + 1]

SweepCallAfter(store, pos, time) ==
    LET i == SweepScan(store, pos, time)
    IN  IF i = 0 THEN IdleCall
        ELSE GetAccessTokenStart(store, "square", store[i].merchantId, time)

\* The merchants autoRefreshSquareTokens' loop calls getAccessToken for from
\* entry pos on, up to the call that awaits a refresh or to the loop's end,
\* and those of them whose call throws at once.
RECURSIVE SweepVisited(_, _, _)
SweepVisited(store, pos, time) ==
    IF pos > Len(store) \/ pos = 0 THEN {}
    ELSE IF store[pos].platform # "square" THEN SweepVisited(store, pos + 1, time)
    ELSE IF SweepScan(store, pos, time) = pos THEN {store[pos].merchantId}
    ELSE {store[pos].merchantId} \cup SweepVisited(store, pos + 1, time)

SweepThrown(store, pos, time) ==
    {m \in SweepVisited(store, pos, time) :
        GetAccessTokenStart(store, "square", m, time).pc = "threw"}

\* The square merchants that have a record.
SquareMerchants(store) ==
    {store[i].merchantId : i \in {j \in 1..Len(store) : store[j].platform = "square"}}

\* A loop without the catch of lines 150-152: a failed call ends the run.
SweepResumeAborting(store, pos, ok) == IF ok THEN pos ELSE Len(store) + 1

\* The entry the loop goes on with after the awaited getAccessToken returned
\* (ok) or threw: the catch only logs.
SweepResume(store, pos, ok) == pos

\* state: the CSRF state of the callback that stored, 0 for any other storeTokens.
NothingStored == [accessToken |-> NoToken, refreshToken |-> NoToken, state |-> 0]

Keys == {KeyOf(p, m) : p \in Platforms, m \in Merchants}

(***************************************************************************)
(* auth/square-oauth.js                                                    *)
(***************************************************************************)
IdleCallback == [pc |-> "idle", state |-> 0, error |-> "", restaurantId |-> "",
                 resp |-> NoResponse, status |-> 0, body |-> ""]

\* authorize lines 215-219: clean tokens older than 10 minutes.
CleanOldTokens(tokens, time) ==
    [s \in {t \in DOMAIN tokens : ~(time - tokens[t].timestamp > CsrfMaxAgeMs)}
        |-> tokens[s]]

\* A callback that does not look its state up in csrfTokens.
CallbackStartAnyState(tokens, state, error) ==
    LET call == [IdleCallback EXCEPT !.state = state, !.error = error]
    IN  IF error # ""
        THEN [call EXCEPT !.pc = "done", !.status = 400, !.body = error]
        ELSE [call EXCEPT !.pc = "exchanging",
                          !.restaurantId = IF state \in DOMAIN tokens
                                           THEN tokens[state].restaurantId
                                           ELSE NoRestaurant]

\* A callback that validates the state before it looks at the error parameter.
CallbackStartStateFirst(tokens, state, error) ==
    LET call == [IdleCallback EXCEPT !.state = state, !.error = error]
    IN  IF state \notin DOMAIN tokens
        THEN [call EXCEPT !.pc = "done", !.status = 400,
                          !.body = "Invalid state parameter"]
        ELSE IF error # ""
        THEN [call EXCEPT !.pc = "done", !.status = 400, !.body = error]
        ELSE [call EXCEPT !.pc = "exchanging",
                          !.restaurantId = tokens[state].restaurantId]

\* callback lines 244-259, up to the await of exchangeCodeForTokens: the frame
\* of the request after it.
CallbackStart(tokens, state, error) ==
    LET call == [IdleCallback EXCEPT !.state = state, !.error = error]
    IN  IF error # ""
        THEN [call EXCEPT !.pc = "done", !.status = 400, !.body = error]
        ELSE IF state \notin DOMAIN tokens
        THEN [call EXCEPT !.pc = "done", !.status = 400,
                          !.body = "Invalid state parameter"]
        ELSE [call EXCEPT !.pc = "exchanging",
                          !.restaurantId = tokens[state].restaurantId]

\* A callback that leaves the state it validated in csrfTokens.
CallbackTokensKept(tokens, state, error) == tokens

\* callback lines 253-259: csrfTokens after the validation.
CallbackTokens(tokens, state, error) ==
    IF error = "" /\ state \in DOMAIN tokens
    THEN [s \in DOMAIN tokens \ {state} |-> tokens[s]]
    ELSE tokens

(***************************************************************************)
(* What a call showed its caller when it ended.                            *)
(***************************************************************************)
NoRet == [op |-> "", platform |-> "", merchantId |-> "", state |-> 0, param |-> "",
          outcome |-> "", result |-> NoToken, message |-> "", status |-> 0,
          awaited |-> FALSE, resp |-> NoResponse, restaurantId |-> ""]

\* A getAccessToken call that returned or threw; awaited: it had awaited the
\* refresh function.
RetOfGet(call, awaited) ==
    [NoRet EXCEPT !.op = "getAccessToken", !.platform = call.platform,
                  !.merchantId = call.merchantId, !.outcome = call.pc,
                  !.result = call.result, !.message = call.error,
                  !.awaited = awaited, !.resp = call.resp,
                  !.restaurantId = call.restaurantId]

\* A callback request that was answered; awaited: it had awaited the exchange.
RetOfCallback(call, awaited) ==
    [NoRet EXCEPT !.op = "callback", !.state = call.state, !.param = call.error,
                  !.awaited = awaited,
                  !.outcome = call.pc, !.status = call.status, !.message = call.body,
                  !.resp = call.resp, !.restaurantId = call.restaurantId]

\* getAccessToken lines 70-87 after the await: store and return, or throw.
GetAccessTokenFinish(call) ==
    IF call.resp.ok
    THEN [call EXCEPT !.pc = "returned", !.result = call.resp.accessToken]
    ELSE [call EXCEPT !.pc = "threw",
                      !.error = "Access token expired and refresh failed"]

\* A getAccessToken that calls the refresh function again when it failed.
CallAfterFinishRetrying(call) ==
    IF call.resp.ok THEN IdleCall
    ELSE [call EXCEPT !.pc = "refreshing", !.resp = NoResponse]

\* The caller's getAccessToken call once lines 70-87 have run: it has returned
\* or thrown (the catch of line 84 rethrows), nothing of it is left.
CallAfterFinish(call) == IdleCall

\* A getAccessToken that stores whatever the refresh call left, failed or not.
RefreshStoreUnchecked(store, call, seedA, seedR, time) ==
    storeTokens(store,
        [platform |-> "square", merchantId |-> call.merchantId,
         accessToken |-> call.resp.accessToken,
         refreshToken |-> call.resp.refreshToken,
         expiresAt |-> call.resp.expiresAt,
         restaurantId |-> call.restaurantId],
        seedA, seedR, time)

\* tokenStore after getAccessToken lines 70-87.
RefreshStore(store, call, seedA, seedR, time) ==
    IF call.resp.ok
    THEN storeTokens(store,
             [platform |-> "square", merchantId |-> call.resp.merchantId,
              accessToken |-> call.resp.accessToken,
              refreshToken |-> call.resp.refreshToken,
              expiresAt |-> call.resp.expiresAt,
              restaurantId |-> call.restaurantId],
             seedA, seedR, time)
    ELSE store

\* A callback that answers 200 whatever the exchange returned.
CallbackFinishAlwaysOk(call) ==
    [call EXCEPT !.pc = "done", !.status = 200, !.body = call.resp.merchantId]

\* callback lines 262-290 after the await: the response of the request.
CallbackFinish(call) ==
    IF call.resp.ok
    THEN [call EXCEPT !.pc = "done", !.status = 200, !.body = call.resp.merchantId]
    ELSE [call EXCEPT !.pc = "done", !.status = 500, !.body = "Token exchange failed"]

\* A callback that stores the tokens without the restaurant of its state.
CallbackStoreNoRestaurant(store, call, seedA, seedR, time) ==
    IF call.resp.ok
    THEN storeTokens(store,
             [platform |-> "square", merchantId |-> call.resp.merchantId,
              accessToken |-> call.resp.accessToken,
              refreshToken |-> call.resp.refreshToken,
              expiresAt |-> call.resp.expiresAt,
              restaurantId |-> NoRestaurant],
             seedA, seedR, time)
    ELSE store

\* tokenStore after callback lines 262-272.
CallbackStore(store, call, seedA, seedR, time) ==
    IF call.resp.ok
    THEN storeTokens(store,
             [platform |-> "square", merchantId |-> call.resp.merchantId,
              accessToken |-> call.resp.accessToken,
              refreshToken |-> call.resp.refreshToken,
              expiresAt |-> call.resp.expiresAt,
              restaurantId |-> call.restaurantId],
             seedA, seedR, time)
    ELSE store

(***************************************************************************)
(* The state after the modules are loaded, no webhook key configured.      *)
(***************************************************************************)
VaultInit ==
    /\ now = 0
    /\ ticks = 0
    /\ tokenStore = << >>
    /\ csrfTokens = << >>
    /\ nextState = 0
    /\ issued = 0
    /\ gat = [c \in Callers |-> IdleCall]
    /\ sweep = IdleSweep
    /\ cb = [c \in CallbackIds |-> IdleCallback]
    /\ ret = NoRet
    /\ exchanged = [s \in 1..MaxStates |-> 0]
    /\ lastStored = [k \in Keys |-> NothingStored]
    /\ authorizedFor = [s \in 1..MaxStates |-> ""]
    /\ sweepLog = NoSweepLog
    /\ SIGNATURE_KEY = NoKey
    /\ processedEvents = << >>
    /\ immediateQueue = << >>
    /\ deliveries = 0
    /\ response = NoWebhookResponse
    /\ handled = [id \in EventIds |-> 0]
    /\ evicted = {}
    /\ request = NoRequest
    /\ answered = << >>
    /\ started = 0
    /\ warnings = 0
    /\ refreshTokenStore = << >>
    /\ nextJti = 0
    /\ jwtIssued = {}
    /\ jwtRet = NoJwtRet
    /\ revoked = {}
    /\ DEFAULT_API_KEY = NoSecret
    /\ apiKeys = << >>
    /\ nextKey = 0
    /\ keyRet = NoKeyRet
    /\ lifecycle = "running"
    /\ box = NoBox

(***************************************************************************)
(* Actions of the credential vault.                                        *)
(***************************************************************************)
Tick ==
    /\ ticks < MaxTicks
    /\ now' = now + TickSize(ticks + 1)
    /\ ticks' = ticks + 1
    /\ ret' = NoRet
    /\ UNCHANGED << tokenStore, csrfTokens, nextState, issued, gat, sweep, cb,
                    exchanged, lastStored, authorizedFor, hookVars, authVars, sweepLog, lifecycle, box >>

\* A call of the exported storeTokens.
StoreTokens(platform, merchantId, accessToken, refreshToken, expiresAt, restaurantId, seedA, seedR) ==
    /\ tokenStore' = storeTokens(tokenStore,
                         [platform |-> platform, merchantId |-> merchantId,
                          accessToken |-> accessToken, refreshToken |-> refreshToken,
                          expiresAt |-> expiresAt, restaurantId |-> restaurantId],
                         seedA, seedR, now)
    /\ lastStored' = [lastStored EXCEPT ![KeyOf(platform, merchantId)] =
                         [accessToken |-> accessToken, refreshToken |-> refreshToken, state |-> 0]]
    /\ ret' = NoRet
    /\ UNCHANGED << now, ticks, csrfTokens, nextState, issued, gat, sweep, cb,
                    exchanged, authorizedFor, hookVars, authVars, sweepLog, lifecycle, box >>

\* A call of the exported removeTokens.  The sweep's iterator is live: it
\* neither skips nor repeats an entry when an earlier one is deleted.
RemoveTokens(platform, merchantId) ==
    /\ tokenStore' = MapDelete(tokenStore, KeyOf(platform, merchantId))
    /\ sweep' = IF MapHas(tokenStore, KeyOf(platform, merchantId))
                   /\ MapIndex(tokenStore, KeyOf(platform, merchantId)) < sweep.pos
                THEN [sweep EXCEPT !.pos = @ - 1] ELSE sweep
    /\ lastStored' = [lastStored EXCEPT ![KeyOf(platform, merchantId)] = NothingStored]
    /\ sweepLog' = IF sweep.pc = "awaiting" /\ platform = "square"
                      /\ MapHas(tokenStore, KeyOf(platform, merchantId))
                   THEN [sweepLog EXCEPT !.gone = @ \cup {merchantId}]
                   ELSE sweepLog
    /\ ret' = NoRet
    /\ UNCHANGED << now, ticks, csrfTokens, nextState, issued, gat, cb, exchanged,
                    authorizedFor, hookVars, authVars, lifecycle, box >>

\* A request handler calls getAccessToken: it returns, throws, or awaits the
\* refresh.
GetAccessToken(c, platform, merchantId) ==
    /\ c # SweepCaller
    /\ ~InFlight(gat[c])
    /\ LET call == GetAccessTokenStart(tokenStore, platform, merchantId, now)
       IN  IF call.pc = "refreshing"
           THEN gat' = [gat EXCEPT ![c] = call] /\ ret' = NoRet
           ELSE gat' = gat /\ ret' = RetOfGet(call, FALSE)
    /\ UNCHANGED << now, ticks, tokenStore, csrfTokens, nextState, issued, sweep, cb,
                    exchanged, lastStored, authorizedFor, hookVars, authVars, sweepLog, lifecycle, box >>

\* autoRefreshSquareTokens is called at instant time: it runs up to its first
\* await of a refresh, or to its end.
SweepStart(time) ==
    /\ sweep.pc = "idle"
    /\ sweep' = SweepAfter(tokenStore, 1, time)
    /\ gat' = [gat EXCEPT ![SweepCaller] = SweepCallAfter(tokenStore, 1, time)]
    /\ sweepLog' = [started |-> SquareMerchants(tokenStore),
                    attempted |-> SweepVisited(tokenStore, 1, time),
                    failed |-> SweepThrown(tokenStore, 1, time),
                    gone |-> {}]
    /\ ret' = NoRet
    /\ UNCHANGED << tokenStore, csrfTokens, nextState, issued, cb,
                    exchanged, lastStored, authorizedFor, hookVars, authVars, lifecycle, box >>

\* setInterval fires autoRefreshSquareTokens.
SweepRun == SweepStart(now) /\ UNCHANGED << now, ticks >>

\* setInterval(autoRefreshSquareTokens, 7 * 24 * 60 * 60 * 1000), and the
\* lifetime of the tokens the token endpoint hands out.
SweepIntervalMs == 7 * OneDayMs
TokenLifetimeMs == 9 * OneDayMs

\* A day passes with no request; on every seventh day since the module was
\* loaded the interval timer fires and autoRefreshSquareTokens starts.  The
\* run of the interval before has ended by then.
DayPasses ==
    /\ sweep.pc = "idle"
    /\ now + OneDayMs <= MaxDays * OneDayMs
    /\ now' = now + OneDayMs
    /\ ticks' = ticks
    /\ IF now' % SweepIntervalMs = 0
       THEN SweepStart(now')
       ELSE /\ ret' = NoRet
            /\ UNCHANGED << tokenStore, csrfTokens, nextState, issued, gat, sweep, cb,
                            exchanged, lastStored, authorizedFor, hookVars, authVars,
                            sweepLog, lifecycle, box >>

\* What the token endpoint answers: a new token pair, or an error.
TokenResponse(ok, n, merchantId, expiresAt) ==
    IF ok THEN [ok |-> TRUE, accessToken |-> AccessTokenOf(n),
                refreshToken |-> RefreshTokenOf(n), expiresAt |-> expiresAt,
                merchantId |-> merchantId]
    ELSE NoResponse

\* The platform's token endpoint answers a refresh_token request
\* (refreshAccessToken lines 330-344).
TokenEndpointRefresh(c, ok, merchantId, expiresAt) ==
    /\ gat[c].pc = "refreshing"
    /\ ok => issued < MaxIssued
    /\ issued' = IF ok THEN issued + 1 ELSE issued
    /\ gat' = [gat EXCEPT ![c].pc = "responded",
                          ![c].resp = TokenResponse(ok, issued + 1, merchantId,
                                                    expiresAt)]
    /\ ret' = NoRet
    /\ UNCHANGED << now, ticks, tokenStore, csrfTokens, nextState, sweep, cb,
                    exchanged, lastStored, authorizedFor, hookVars, authVars, sweepLog, lifecycle, box >>

\* The response reaches getAccessToken; the sweep's loop then goes on.
RefreshReturn(c, seedA, seedR) ==
    /\ gat[c].pc = "responded"
    /\ tokenStore' = RefreshStore(tokenStore, gat[c], seedA, seedR, now)
    /\ lastStored' = IF gat[c].resp.ok
                     THEN [lastStored EXCEPT ![KeyOf("square", gat[c].resp.merchantId)] =
                              [accessToken |-> gat[c].resp.accessToken,
                               refreshToken |-> gat[c].resp.refreshToken, state |-> 0]]
                     ELSE lastStored
    /\ ret' = RetOfGet(GetAccessTokenFinish(gat[c]), TRUE)
    /\ IF c = SweepCaller
       THEN LET pos == SweepResume(tokenStore', sweep.pos, gat[c].resp.ok)
            IN  /\ sweep' = SweepAfter(tokenStore', pos, now)
                /\ gat' = [gat EXCEPT ![c] = SweepCallAfter(tokenStore', pos, now)]
                /\ sweepLog' =
                      [sweepLog EXCEPT
                          !.attempted = @ \cup SweepVisited(tokenStore', pos, now),
                          !.failed = @ \cup SweepThrown(tokenStore', pos, now)
                                       \cup (IF gat[c].resp.ok THEN {}
                                             ELSE {gat[c].merchantId})]
       ELSE /\ sweep' = sweep
            /\ gat' = [gat EXCEPT ![c] = CallAfterFinish(gat[c])]
            /\ sweepLog' = sweepLog
    /\ UNCHANGED << now, ticks, csrfTokens, nextState, issued, cb, exchanged,
                    authorizedFor, hookVars, authVars, lifecycle, box >>

(***************************************************************************)
(* Actions of the OAuth flow.                                              *)
(***************************************************************************)
Authorize(restaurantId) ==
    /\ nextState < MaxStates
    /\ nextState' = nextState + 1
    /\ csrfTokens' = CleanOldTokens(
                        [s \in DOMAIN csrfTokens \cup {nextState + 1} |->
                            IF s = nextState + 1
                            THEN [timestamp |-> now, restaurantId |-> restaurantId]
                            ELSE csrfTokens[s]],
                        now)
    /\ authorizedFor' = [authorizedFor EXCEPT ![nextState + 1] = restaurantId]
    /\ ret' = NoRet
    /\ UNCHANGED << now, ticks, tokenStore, issued, gat, sweep, cb, exchanged,
                    lastStored, hookVars, authVars, sweepLog, lifecycle, box >>

\* A callback request arrives: it is answered 400, or consumes its state and
\* awaits the exchange.
Callback(c, state, error) ==
    /\ ~InFlight(cb[c])
    /\ \A d \in CallbackIds : d < c => InFlight(cb[d])
    /\ LET call == CallbackStart(csrfTokens, state, error)
       IN  /\ IF call.pc = "exchanging"
              THEN /\ cb' = [cb EXCEPT ![c] = call]
                   /\ ret' = NoRet
                   /\ exchanged' = [exchanged EXCEPT ![state] = @ + 1]
              ELSE /\ cb' = cb
                   /\ ret' = RetOfCallback(call, FALSE)
                   /\ exchanged' = exchanged
    /\ csrfTokens' = CallbackTokens(csrfTokens, state, error)
    /\ UNCHANGED << now, ticks, tokenStore, nextState, issued, gat, sweep, lastStored,
                    authorizedFor, hookVars, authVars, sweepLog, lifecycle, box >>

\* The platform's token endpoint answers an authorization_code request
\* (exchangeCodeForTokens lines 297-311).
TokenEndpointExchange(c, ok, merchantId, expiresAt) ==
    /\ cb[c].pc = "exchanging"
    /\ ok => issued < MaxIssued
    /\ issued' = IF ok THEN issued + 1 ELSE issued
    /\ cb' = [cb EXCEPT ![c].pc = "responded",
                        ![c].resp = TokenResponse(ok, issued + 1, merchantId,
                                                  expiresAt)]
    /\ ret' = NoRet
    /\ UNCHANGED << now, ticks, tokenStore, csrfTokens, nextState, gat, sweep,
                    exchanged, lastStored, authorizedFor, hookVars, authVars, sweepLog, lifecycle, box >>

\* The response reaches callback: it stores the tokens and answers.
CallbackReturn(c, seedA, seedR) ==
    /\ cb[c].pc = "responded"
    /\ tokenStore' = CallbackStore(tokenStore, cb[c], seedA, seedR, now)
    /\ lastStored' = IF cb[c].resp.ok
                     THEN [lastStored EXCEPT ![KeyOf("square", cb[c].resp.merchantId)] =
                              [accessToken |-> cb[c].resp.accessToken,
                               refreshToken |-> cb[c].resp.refreshToken,
                               state |-> cb[c].state]]
                     ELSE lastStored
    /\ ret' = RetOfCallback(CallbackFinish(cb[c]), TRUE)
    /\ cb' = [cb EXCEPT ![c] = IdleCallback]
    /\ UNCHANGED << now, ticks, csrfTokens, nextState, issued, gat, sweep, exchanged,
                    authorizedFor, hookVars, authVars, sweepLog, lifecycle, box >>

(***************************************************************************)
(* webhooks/square-webhook.js                                              *)
(*                                                                         *)
(* A request body is the sequence << '{', type, event_id, data, '}' >>;    *)
(* any other text is not JSON.  type: 1 'order.created',                   *)
(* 2 'oauth.authorization.revoked', 3 a type processEvent has no case for. *)
(* data: 1 data.object.order_created.order is an order, 2 order_created    *)
(* has no order, 3 data has no object.                                     *)
(***************************************************************************)
NoSignature == << >>

\* process.env.BASE_URL + '/webhook/square', abridged to "/w".
NOTIFICATION_URL == << 47, 119 >>

\* processEvent lines 146-147: keep last 1000, delete the first 500.
ProcessedEventsLimit == 1000
CleanupBatch == 500

OrderCreated == 1
OAuthRevoked == 2
UnhandledType == 3
WithOrder == 1
WithoutOrder == 2
WithoutObject == 3

Body(type, event_id, data) == << 123, type, event_id, data, 125 >>

\* JSON.parse(body): the event, or ok = FALSE when it throws.
JsonParse(body) ==
    IF Len(body) = 5 /\ body[1] = 123 /\ body[5] = 125
    THEN [ok |-> TRUE, type |-> body[2], event_id |-> body[3], data |-> body[4]]
    ELSE [ok |-> FALSE, type |-> 0, event_id |-> 0, data |-> 0]

RECURSIVE WeightedSum(_, _)
WeightedSum(s, i) == IF Len(s) = 0 THEN 0 ELSE i * s[1] + WeightedSum(Tail(s), i + 1)

\* createHmac('sha256', key).update(message).digest('base64'): 32 bytes that
\* key and message determine (an arithmetic stand-in for SHA-256), in base64.
HmacSha256Base64(key, message) ==
    LET h == 31 * WeightedSum(key, 1) + WeightedSum(message, 1) + Len(message)
    IN  Base64Encode([j \in 1..32 |-> (h * j + j) % 256])

\* A verifySignature that compares no further than the shorter buffer.
verifySignaturePrefix(key, body, signature) ==
    IF key = NoKey THEN TRUE
    ELSE IF signature = NoSignature THEN FALSE
    ELSE LET expectedSignature == HmacSha256Base64(key, NOTIFICATION_URL \o body)
             a == Utf8Encode(signature)
             b == Utf8Encode(expectedSignature)
         IN  \A i \in 1..Len(a) : i <= Len(b) => a[i] = b[i]

\* verifySignature(body, signature), lines 19-45.  timingSafeEqual throws on
\* buffers of different lengths; the catch turns that into false.
verifySignature(key, body, signature) ==
    IF key = NoKey THEN TRUE
    ELSE IF signature = NoSignature THEN FALSE
    ELSE LET expectedSignature == HmacSha256Base64(key, NOTIFICATION_URL \o body)
             a == Utf8Encode(signature)
             b == Utf8Encode(expectedSignature)
         IN  IF Len(a) # Len(b) THEN FALSE ELSE a = b

\* A verifySignature that logs nothing when it skips the verification.
verifySignatureSilent(key, body, signature) == FALSE

\* verifySignature lines 21-24: whether the call logs 'Webhook signature
\* verification skipped - no SIGNATURE_KEY'.
verifySignatureWarns(key, body, signature) == key = NoKey

\* A handleWebhook that does not call verifySignature.
WebhookResponseUnverified(key, body, signature) ==
    LET event == JsonParse(body)
    IN  IF ~event.ok THEN [status |-> 400, eventId |-> 0]
        ELSE [status |-> 200, eventId |-> event.event_id]

\* handleWebhook lines 55-96: what it answers.
WebhookResponse(key, body, signature) ==
    LET event == JsonParse(body)
    IN  IF ~event.ok THEN [status |-> 400, eventId |-> 0]
        ELSE IF ~verifySignature(key, body, signature)
        THEN [status |-> 401, eventId |-> 0]
        ELSE [status |-> 200, eventId |-> event.event_id]

SetHas(set, id) == \E i \in 1..Len(set) : set[i] = id

\* processedEvents.add(id)
SetAdd(set, id) == IF SetHas(set, id) THEN set ELSE Append(set, id)

\* A cleanup that deletes the 500 ids inserted last.
CleanNewestEvents(set) ==
    IF Len(set) > ProcessedEventsLimit
    THEN SubSeq(set, 1, Len(set) - CleanupBatch)
    ELSE set

\* processEvent lines 146-149: Array.from(processedEvents).slice(0, 500) deleted.
CleanOldEvents(set) ==
    IF Len(set) > ProcessedEventsLimit
    THEN SubSeq(set, CleanupBatch + 1, Len(set))
    ELSE set

\* The ids CleanOldEvents deletes.
Cleaned(set) ==
    IF Len(set) > ProcessedEventsLimit
    THEN {set[i] : i \in 1..CleanupBatch}
    ELSE {}

\* processEvent lines 113-140: evaluating the handler's argument throws a
\* TypeError when data.object is undefined, before the handler is entered.
ArgumentThrows(event) == event.type = OrderCreated /\ event.data = WithoutObject

\* The switch enters one of the handlers.
HandlerEntered(event) ==
    event.type \in {OrderCreated, OAuthRevoked} /\ ~ArgumentThrows(event)

\* handleOrderCreated reads order.id of orderData.order; handleOAuthRevoked
\* only logs.
HandlerThrows(event) ==
    HandlerEntered(event) /\ event.type = OrderCreated /\ event.data = WithoutOrder

\* A processEvent that records the id whether or not the handler threw.
ProcessedAfterAnyOutcome(set, event) ==
    IF SetHas(set, event.event_id) THEN set
    ELSE CleanOldEvents(SetAdd(set, event.event_id))

\* processEvent lines 105-153: the set after it.
ProcessedAfter(set, event) ==
    IF SetHas(set, event.event_id) THEN set
    ELSE IF ArgumentThrows(event) \/ HandlerThrows(event) THEN set
    ELSE CleanOldEvents(SetAdd(set, event.event_id))

\* A processEvent whose failure is answered with a 500 on the latest request.
AnsweredWithError(sent, set, event) ==
    IF ~SetHas(set, event.event_id) /\ (ArgumentThrows(event) \/ HandlerThrows(event))
    THEN [sent EXCEPT ![Len(sent)] = Append(@, 500)]
    ELSE sent

\* The responses sent once the setImmediate callback has run (handleWebhook
\* lines 81-87, processEvent lines 151-153): both catch blocks only log.
AnsweredAfter(sent, set, event) == sent

\* processEvent enters a downstream handler.
Dispatches(set, event) == ~SetHas(set, event.event_id) /\ HandlerEntered(event)

\* processedEvents after 1000 earlier events, ids 1..1000.
EarlierEvents == [i \in 1..ProcessedEventsLimit |-> i]

\* The same, when event 1001 was the first of the 1000.
EarlierEventsAfter1001 == << 1001 >> \o [i \in 1..(ProcessedEventsLimit - 1) |-> i]

\* The module is loaded with or without a signature key; processedEvents is
\* empty, or holds what 1000 earlier events left in it.
HookInit ==
    /\ now = 0
    /\ ticks = 0
    /\ tokenStore = << >>
    /\ csrfTokens = << >>
    /\ nextState = 0
    /\ issued = 0
    /\ gat = [c \in Callers |-> IdleCall]
    /\ sweep = IdleSweep
    /\ cb = [c \in CallbackIds |-> IdleCallback]
    /\ ret = NoRet
    /\ exchanged = [s \in 1..MaxStates |-> 0]
    /\ lastStored = [k \in Keys |-> NothingStored]
    /\ authorizedFor = [s \in 1..MaxStates |-> ""]
    /\ sweepLog = NoSweepLog
    /\ SIGNATURE_KEY \in {NoKey, << 107, 49 >>}
    /\ processedEvents \in {<< >>, EarlierEvents, EarlierEventsAfter1001}
    /\ immediateQueue = << >>
    /\ deliveries = 0
    /\ response = NoWebhookResponse
    /\ handled = [id \in EventIds |->
                     IF id = 1001 /\ processedEvents = EarlierEventsAfter1001
                     THEN 1 ELSE 0]
    /\ evicted = {}
    /\ request = NoRequest
    /\ answered = << >>
    /\ started = 0
    /\ warnings = 0
    /\ refreshTokenStore = << >>
    /\ nextJti = 0
    /\ jwtIssued = {}
    /\ jwtRet = NoJwtRet
    /\ revoked = {}
    /\ DEFAULT_API_KEY = NoSecret
    /\ apiKeys = << >>
    /\ nextKey = 0
    /\ keyRet = NoKeyRet
    /\ lifecycle = "running"
    /\ box = NoBox

\* A webhook request arrives: handleWebhook runs to its end (it awaits nothing).
HandleWebhook(body, signature) ==
    /\ deliveries < MaxDeliveries
    /\ deliveries' = deliveries + 1
    /\ response' = WebhookResponse(SIGNATURE_KEY, body, signature)
    /\ immediateQueue' = IF response'.status = 200
                         THEN Append(immediateQueue, JsonParse(body))
                         ELSE immediateQueue
    /\ request' = [body |-> body, signature |-> signature]
    /\ answered' = Append(answered, << response'.status >>)
    /\ warnings' = IF JsonParse(body).ok /\ verifySignatureWarns(SIGNATURE_KEY, body, signature)
                   THEN warnings + 1
                   ELSE warnings
    /\ UNCHANGED << SIGNATURE_KEY, processedEvents, handled, evicted, started,
                    vaultVars, authVars, lifecycle, box >>

\* The event loop runs the oldest setImmediate callback: processEvent runs to
\* its end, its awaits are of handlers that await nothing.
ProcessEvent ==
    /\ immediateQueue # << >>
    /\ LET event == Head(immediateQueue)
       IN  /\ processedEvents' = ProcessedAfter(processedEvents, event)
           /\ handled' = IF Dispatches(processedEvents, event)
                         THEN [handled EXCEPT ![event.event_id] = @ + 1]
                         ELSE handled
           /\ evicted' = IF processedEvents' # processedEvents
                         THEN evicted \cup
                              (Cleaned(SetAdd(processedEvents, event.event_id))
                                  \cap EventIds)
                         ELSE evicted
    /\ immediateQueue' = Tail(immediateQueue)
    /\ response' = NoWebhookResponse
    /\ request' = NoRequest
    /\ answered' = AnsweredAfter(answered, processedEvents, Head(immediateQueue))
    /\ started' = started + 1
    /\ UNCHANGED << SIGNATURE_KEY, deliveries, warnings, vaultVars, authVars, lifecycle, box >>

\* The bodies delivered, and the signature headers a request for body carries:
\* none, the right one, one with a changed character, one cut short, and the
\* right one of another body.
Bodies ==
    { Body(OrderCreated, 1001, WithOrder), Body(OrderCreated, 1002, WithoutOrder),
      Body(OrderCreated, 1002, WithoutObject), Body(OAuthRevoked, 1003, WithOrder),
      Body(UnhandledType, 1003, WithOrder), << 123 >> }

SignaturesFor(body) ==
    LET good == HmacSha256Base64(<< 107, 49 >>, NOTIFICATION_URL \o body)
        other == IF body = Body(OrderCreated, 1001, WithOrder)
                 THEN Body(OAuthRevoked, 1003, WithOrder)
                 ELSE Body(OrderCreated, 1001, WithOrder)
    IN  { NoSignature, good, [good EXCEPT ![1] = (@ + 1) % 64],
          SubSeq(good, 1, Len(good) - 4),
          HmacSha256Base64(<< 107, 49 >>, NOTIFICATION_URL \o other) }

\* The two nonces one storeTokens draws (one per encrypt call).
NoncePairs == {<< a, (a + 1) % (MaxNonce + 1) >> : a \in Nonces}

\* The platform answers and the answer reaches the caller.
RefreshSteps ==
    \/ \E c \in Callers, ok \in BOOLEAN, e \in ExpiresAtChoices :
          TokenEndpointRefresh(c, ok, gat[c].merchantId, e)
    \/ \E c \in Callers, n \in NoncePairs : RefreshReturn(c, n[1], n[2])

\* The tokenData the exported storeTokens is called with.
StoreInputs ==
    { [platform |-> "square", merchantId |-> "m1",
       accessToken |-> AccessTokenOf(0), refreshToken |-> RefreshTokenOf(0)],
      [platform |-> "toast", merchantId |-> "m1",
       accessToken |-> AccessTokenOf(0), refreshToken |-> NoToken],
      [platform |-> "toast", merchantId |-> "m1",
       accessToken |-> NoToken, refreshToken |-> NoToken] }

VaultNext ==
    \/ Tick
    \/ \E t \in StoreInputs, e \in ExpiresAtChoices, n \in NoncePairs :
          StoreTokens(t.platform, t.merchantId, t.accessToken, t.refreshToken, e,
                      NoRestaurant, n[1], n[2])
    \/ \E t \in StoreInputs : RemoveTokens(t.platform, t.merchantId)
    \/ \E c \in Callers, t \in StoreInputs : GetAccessToken(c, t.platform, t.merchantId)
    \/ SweepRun
    \/ RefreshSteps

OAuthNext ==
    \/ Tick
    \/ \E r \in Restaurants : Authorize(r)
    \/ \E c \in CallbackIds, s \in StateParams, e \in {"", "access_denied"} :
          Callback(c, s, e)
    \/ \E c \in CallbackIds, ok \in BOOLEAN, m \in Merchants, e \in ExpiresAtChoices :
          TokenEndpointExchange(c, ok, m, e)
    \/ \E c \in CallbackIds, n \in NoncePairs : CallbackReturn(c, n[1], n[2])
    \/ \E c \in Callers, m \in Merchants : GetAccessToken(c, "square", m)
    \/ RefreshSteps

WebhookNext ==
    \/ \E body \in Bodies : \E signature \in SignaturesFor(body) :
          HandleWebhook(body, signature)
    \/ ProcessEvent

vars == << vaultVars, hookVars, authVars, lifecycle, box >>

\* The vault under calls of its exported functions and the sweep.
SpecVault == VaultInit /\ [][VaultNext]_vars

\* The OAuth handshake with the request handlers that use its tokens.
SpecOAuth == VaultInit /\ [][OAuthNext]_vars

\* The Square webhook endpoint.
SpecWebhook == HookInit /\ [][WebhookNext]_vars

\* The sweep over two square merchants and a toast merchant: records that
\* are due for a refresh or not, one without a refresh token, removals while
\* the run awaits the token endpoint, and responses that fail.
SweepStoreInputs ==
    { [platform |-> "square", merchantId |-> "m1", refreshToken |-> RefreshTokenOf(0),
       expiresAt |-> OneDayMs],
      [platform |-> "square", merchantId |-> "m1", refreshToken |-> RefreshTokenOf(0),
       expiresAt |-> 2 * OneDayMs],
      [platform |-> "square", merchantId |-> "m2", refreshToken |-> RefreshTokenOf(0),
       expiresAt |-> OneDayMs],
      [platform |-> "square", merchantId |-> "m2", refreshToken |-> NoToken,
       expiresAt |-> OneDayMs],
      [platform |-> "toast", merchantId |-> "m1", refreshToken |-> NoToken,
       expiresAt |-> OneDayMs] }

SweepNext ==
    \/ \E t \in SweepStoreInputs, n \in NoncePairs :
          StoreTokens(t.platform, t.merchantId, AccessTokenOf(0), t.refreshToken,
                      t.expiresAt, NoRestaurant, n[1], n[2])
    \/ \E m \in Merchants : RemoveTokens("square", m)
    \/ SweepRun
    \/ \E ok \in BOOLEAN :
          TokenEndpointRefresh(SweepCaller, ok, gat[SweepCaller].merchantId, 2 * OneDayMs)
    \/ \E n \in NoncePairs : RefreshReturn(SweepCaller, n[1], n[2])

\* autoRefreshSquareTokens, with no request traffic.
SpecSweep == VaultInit /\ [][SweepNext]_vars

\* event.merchant_id of the events delivered (processEvent line 102).
EventMerchant == "m1"

RevocationNext ==
    \/ \E n \in NoncePairs :
          StoreTokens("square", EventMerchant, AccessTokenOf(0), RefreshTokenOf(0),
                      2 * OneDayMs, NoRestaurant, n[1], n[2])
    \/ \E c \in Callers : GetAccessToken(c, "square", EventMerchant)
    \/ \E body \in Bodies : \E signature \in SignaturesFor(body) :
          HandleWebhook(body, signature)
    \/ ProcessEvent

\* The webhook endpoint of a server that holds a connected merchant's tokens.
SpecRevocation == HookInit /\ [][RevocationNext]_vars

\* A merchant connects at some day; from then on the only callers of
\* getAccessToken are the runs of autoRefreshSquareTokens, one every seven
\* days, and the token endpoint answers every refresh with a new pair.
IdleNext ==
    \/ \E n \in NoncePairs :
          StoreTokens("square", "m1", AccessTokenOf(0), RefreshTokenOf(0),
                      now + TokenLifetimeMs, NoRestaurant, n[1], n[2])
    \/ DayPasses
    \/ TokenEndpointRefresh(SweepCaller, TRUE, gat[SweepCaller].merchantId,
                            now + TokenLifetimeMs)
    \/ \E n \in NoncePairs : RefreshReturn(SweepCaller, n[1], n[2])

SpecIdle == VaultInit /\ [][IdleNext]_vars

\* Requests for merchant m1 whose token is due, with a token endpoint whose
\* answer names m1 or another merchant (refreshAccessToken returns
\* data.merchant_id, line 354, and getAccessToken stores under it, line 75).
RefreshIdNext ==
    \/ \E n \in NoncePairs :
          StoreTokens("square", "m1", AccessTokenOf(0), RefreshTokenOf(0), OneDayMs,
                      "rest_1", n[1], n[2])
    \/ \E c \in Callers : GetAccessToken(c, "square", "m1")
    \/ SweepRun
    \/ Tick
    \/ \E c \in Callers, ok \in BOOLEAN, m \in Merchants :
          TokenEndpointRefresh(c, ok, m, 2 * OneDayMs)
    \/ \E c \in Callers, n \in NoncePairs : RefreshReturn(c, n[1], n[2])

SpecRefreshId == VaultInit /\ [][RefreshIdNext]_vars

\* Merchant m1 is connected, and connected again for another restaurant
\* (callback lines 265-272 call storeTokens with the restaurantId of the
\* state), while requests for its token find it due.
ReconnectNext ==
    \/ \E r \in Restaurants, n \in NoncePairs :
          StoreTokens("square", "m1", AccessTokenOf(0), RefreshTokenOf(0), OneDayMs,
                      r, n[1], n[2])
    \/ \E c \in Callers : GetAccessToken(c, "square", "m1")
    \/ Tick
    \/ RefreshSteps

SpecReconnect == VaultInit /\ [][ReconnectNext]_vars

(***************************************************************************)
(* server.js: graceful shutdown.                                           *)
(***************************************************************************)

\* process.on('SIGTERM') and process.on('SIGINT'), lines 456-494: server is
\* set when the module is loaded (line 512), so the handler calls
\* server.close() and arms the forced-exit timer; nothing else is stopped.
Shutdown(signal) ==
    /\ lifecycle # "exited"
    /\ lifecycle' = "closing"
    /\ UNCHANGED << vaultVars, hookVars, authVars, box >>

\* The callback of server.close() or the forced-exit timer calls process.exit.
ProcessExit ==
    /\ lifecycle = "closing"
    /\ lifecycle' = "exited"
    /\ UNCHANGED << vaultVars, hookVars, authVars, box >>

\* The process has not exited: its timers and continuations still run.
Alive == lifecycle # "exited"

LifecycleNext ==
    \/ \E signal \in {"SIGTERM", "SIGINT"} : Shutdown(signal)
    \/ ProcessExit
    \/ /\ Alive
       /\ \E t \in SweepStoreInputs, n \in NoncePairs :
             /\ t.platform = "square"
             /\ StoreTokens(t.platform, t.merchantId, AccessTokenOf(0), t.refreshToken,
                            OneDayMs, NoRestaurant, n[1], n[2])
    \/ Alive /\ SweepRun
    \/ /\ Alive
       /\ \E ok \in BOOLEAN :
             TokenEndpointRefresh(SweepCaller, ok, gat[SweepCaller].merchantId,
                                  2 * OneDayMs)
    \/ Alive /\ \E n \in NoncePairs : RefreshReturn(SweepCaller, n[1], n[2])

\* The token manager's interval timer in a server that is told to shut down.
SpecLifecycle == VaultInit /\ [][LifecycleNext]_vars

(***************************************************************************)
(* utils/encryption.js: an encrypt output that reaches decrypt changed in  *)
(* one character or cut short.                                             *)
(***************************************************************************)

\* The plaintexts encrypted: 33, 34 and 35 bytes of envelope, so that the
\* base64 string ends with no, two and one '='.
PlainInputs == {<< 65 >>, << 65, 48 >>, << 65, 48, 49 >>}

\* The string with the character at position at replaced by digit, or cut to
\* its first at - 1 characters.
Changed(str, kind, at, digit) ==
    IF kind = "cut" THEN SubSeq(str, 1, at - 1) ELSE [str EXCEPT ![at] = digit]

\* Every plaintext and nonce with every single-character change and every
\* truncation of its envelope.
BoxInputs ==
    UNION { { [NoBox EXCEPT !.pc = "input", !.plaintext = p, !.seed = n,
                            !.kind = "flip", !.at = a, !.digit = d] :
                a \in 1..Len(encrypt(p, n)), d \in 0..Pad }
            \cup { [NoBox EXCEPT !.pc = "input", !.plaintext = p, !.seed = n,
                                 !.kind = "cut", !.at = a] :
                     a \in 1..Len(encrypt(p, n)) } :
            p \in PlainInputs, n \in Nonces }

CryptoInit ==
    /\ now = 0
    /\ ticks = 0
    /\ tokenStore = << >>
    /\ csrfTokens = << >>
    /\ nextState = 0
    /\ issued = 0
    /\ gat = [c \in Callers |-> IdleCall]
    /\ sweep = IdleSweep
    /\ cb = [c \in CallbackIds |-> IdleCallback]
    /\ ret = NoRet
    /\ exchanged = [s \in 1..MaxStates |-> 0]
    /\ lastStored = [k \in Keys |-> NothingStored]
    /\ authorizedFor = [s \in 1..MaxStates |-> ""]
    /\ sweepLog = NoSweepLog
    /\ SIGNATURE_KEY = NoKey
    /\ processedEvents = << >>
    /\ immediateQueue = << >>
    /\ deliveries = 0
    /\ response = NoWebhookResponse
    /\ handled = [id \in EventIds |-> 0]
    /\ evicted = {}
    /\ request = NoRequest
    /\ answered = << >>
    /\ started = 0
    /\ warnings = 0
    /\ refreshTokenStore = << >>
    /\ nextJti = 0
    /\ jwtIssued = {}
    /\ jwtRet = NoJwtRet
    /\ revoked = {}
    /\ DEFAULT_API_KEY = NoSecret
    /\ apiKeys = << >>
    /\ nextKey = 0
    /\ keyRet = NoKeyRet
    /\ lifecycle = "running"
    /\ box \in BoxInputs

\* encrypt(plaintext), lines 220-250.
EncryptCall ==
    /\ box.pc = "input"
    /\ box' = [box EXCEPT !.pc = "encrypted",
                          !.opaque = encrypt(box.plaintext, box.seed)]
    /\ UNCHANGED << vaultVars, hookVars, authVars, lifecycle >>

\* The stored string is corrupted or tampered with before it is read back.
Corrupt ==
    /\ box.pc = "encrypted"
    /\ box.kind = "flip" => box.digit # box.opaque[box.at]
    /\ box' = [box EXCEPT !.pc = "presented",
                          !.presented = Changed(box.opaque, box.kind, box.at, box.digit)]
    /\ UNCHANGED << vaultVars, hookVars, authVars, lifecycle >>

\* decrypt(encryptedData), lines 258-285.
DecryptCall ==
    /\ box.pc = "presented"
    /\ box' = [box EXCEPT !.pc = "done", !.result = decrypt(box.presented)]
    /\ UNCHANGED << vaultVars, hookVars, authVars, lifecycle >>

CryptoNext == EncryptCall \/ Corrupt \/ DecryptCall

SpecCrypto == CryptoInit /\ [][CryptoNext]_vars

(***************************************************************************)
(* auth/jwt-auth.js                                                        *)
(*                                                                         *)
(* A JSON Web Token is modelled by what jsonwebtoken reads from it: the    *)
(* number of its dot-separated parts, the claims of its payload (jti is 0  *)
(* in a payload without one) and its signature.  HMAC-SHA256 is modelled   *)
(* by a keyed sum of the claims.  Times of the payload are in seconds.     *)
(***************************************************************************)
\* process.env.JWT_SECRET, and a secret that is not the server's.
JWT_SECRET == 4001
OtherSecret == 4002
\* ms('15m') / 1000 and ms('7d') / 1000: the defaults of the two lifetimes.
JWT_EXPIRES_IN == 900
JWT_REFRESH_EXPIRES_IN == 604800

JwtUsers == {"u1", "u2"}
UserCode(userId) == IF userId = "u1" THEN 1 ELSE IF userId = "u2" THEN 2 ELSE 0
TypeCode(type) == IF type = "access" THEN 1 ELSE IF type = "refresh" THEN 2 ELSE 0

\* jwa's HS256 over header and payload.
JwtHmac(secret, p) == (secret + 3 * UserCode(p.userId) + 5 * TypeCode(p.type) + 7 * p.jti + 11 * p.iat + 13 * p.exp) % 2147483647

\* jwt.sign(payload, secret, {expiresIn}): exp is payload.iat + expiresIn.
JwtSignToken(userId, type, jti, iat, expiresIn, secret) ==
    LET p == [parts |-> 3, userId |-> userId, type |-> type, jti |-> jti,
              iat |-> iat, exp |-> iat + expiresIn, sig |-> 0]
    IN  [p EXCEPT !.sig = JwtHmac(secret, p)]

\* jwt.decode(token): null for a token that is no JWT.
JwtDecodes(token) == token.parts = 3

generateAccessToken(userId, t) ==
    JwtSignToken(userId, "access", 0, t \div 1000, JWT_EXPIRES_IN, JWT_SECRET)

\* The token generateRefreshToken signs, jti being its randomUUID().
RefreshTokenOfJti(userId, jti, t) ==
    JwtSignToken(userId, "refresh", jti, t \div 1000, JWT_REFRESH_EXPIRES_IN, JWT_SECRET)

\* refreshTokenStore.delete for every jti of the set.
StoreWithout(store, jtis) == [j \in DOMAIN store \ jtis |-> store[j]]

cleanExpiredRefreshTokens(store, t) ==
    StoreWithout(store, {j \in DOMAIN store : store[j].expiresAt < t})

\* refreshTokenStore after generateRefreshToken: the entry is set, then the
\* expired entries are removed.
StoreAfterGenerate(store, userId, jti, t) ==
    LET token == RefreshTokenOfJti(userId, jti, t)
        entry == [userId |-> userId, createdAt |-> t, expiresAt |-> token.exp * 1000]
    IN  cleanExpiredRefreshTokens(
            [j \in DOMAIN store \cup {jti} |-> IF j = jti THEN entry ELSE store[j]], t)

\* verifyToken with an expiry check that is left out.
verifyTokenNoExpiry(token, t) ==
    IF ~JwtDecodes(token) THEN [ok |-> FALSE, message |-> "Invalid token"]
    ELSE IF token.sig # JwtHmac(JWT_SECRET, token)
    THEN [ok |-> FALSE, message |-> "Invalid token"]
    ELSE [ok |-> TRUE, message |-> ""]

\* verifyToken: jwt.verify checks the form, then the signature, then exp
\* against floor(Date.now() / 1000); TokenExpiredError and JsonWebTokenError
\* are rethrown as 'Token expired' and 'Invalid token'.
verifyToken(token, t) ==
    IF ~JwtDecodes(token) THEN [ok |-> FALSE, message |-> "Invalid token"]
    ELSE IF token.sig # JwtHmac(JWT_SECRET, token)
    THEN [ok |-> FALSE, message |-> "Invalid token"]
    ELSE IF (t \div 1000) >= token.exp
    THEN [ok |-> FALSE, message |-> "Token expired"]
    ELSE [ok |-> TRUE, message |-> ""]

\* What refreshAccessToken returns or throws.
RefreshResult(outcome, message, accessToken) == [outcome |-> outcome, message |-> message, accessToken |-> accessToken]

\* refreshAccessToken without the look-up in refreshTokenStore.
refreshAccessTokenUnregistered(store, token, t) ==
    LET v == verifyToken(token, t)
    IN  IF ~v.ok THEN RefreshResult("throws", v.message, NoJwt)
        ELSE IF token.type # "refresh"
        THEN RefreshResult("throws", "Invalid token type", NoJwt)
        ELSE RefreshResult("returns", "", generateAccessToken(token.userId, t))

refreshAccessToken(store, token, t) ==
    LET v == verifyToken(token, t)
    IN  IF ~v.ok THEN RefreshResult("throws", v.message, NoJwt)
        ELSE IF token.type # "refresh"
        THEN RefreshResult("throws", "Invalid token type", NoJwt)
        ELSE IF token.jti \notin DOMAIN store
        THEN RefreshResult("throws", "Refresh token revoked or invalid", NoJwt)
        ELSE RefreshResult("returns", "", generateAccessToken(token.userId, t))

\* refreshTokenStore after refreshAccessToken, were the refresh token rotated.
StoreAfterRefreshRotated(store, token, t) ==
    IF refreshAccessToken(store, token, t).outcome = "returns"
    THEN StoreWithout(store, {token.jti})
    ELSE store

\* refreshTokenStore after refreshAccessToken: it is only read.
StoreAfterRefresh(store, token, t) == store

\* revokeRefreshToken: the token is decoded, not verified.
RevokeReturns(token) == JwtDecodes(token) /\ token.jti # 0
StoreAfterRevoke(store, token) ==
    IF RevokeReturns(token) THEN StoreWithout(store, {token.jti}) ELSE store

\* A revokeAllUserTokens that empties the registry.
revokeAllUserTokensOfAll(store, userId) ==
    StoreWithout(store, DOMAIN store)

revokeAllUserTokens(store, userId) ==
    StoreWithout(store, {j \in DOMAIN store : store[j].userId = userId})

\* api/auth-api.js changePassword, lines 249-296: what it answers for a
\* request whose body fails validation, whose user is not in users, whose
\* currentPassword bcrypt.compare refuses, or that passes all three.
ChangePasswordChecks == {"invalid", "unknown", "wrong", "ok"}
changePasswordStatus(check) ==
    IF check = "invalid" THEN 400
    ELSE IF check = "unknown" THEN 404
    ELSE IF check = "wrong" THEN 401
    ELSE 200

\* An Authorization header: its first space-separated part and the others.
NoHeader == [scheme |-> "", tokens |-> << >>]
Bearer(token) == [scheme |-> "Bearer", tokens |-> << token >>]

\* What a middleware did: the response it sent (status 0: none), req.user,
\* and whether it called next().
Middleware(status, message, user, next) == [status |-> status, message |-> message, user |-> user, next |-> next]

\* authenticateJWT without the check of decoded.type.
authenticateJWTAnyType(header, t) ==
    IF header = NoHeader
    THEN Middleware(401, "No authorization header provided", NoUser, FALSE)
    ELSE IF Len(header.tokens) # 1 \/ header.scheme # "Bearer"
    THEN Middleware(401, "Invalid authorization format. Use: Bearer <token>", NoUser, FALSE)
    ELSE LET v == verifyToken(header.tokens[1], t)
         IN  IF ~v.ok THEN Middleware(401, v.message, NoUser, FALSE)
             ELSE Middleware(0, "", header.tokens[1].userId, TRUE)

authenticateJWT(header, t) ==
    IF header = NoHeader
    THEN Middleware(401, "No authorization header provided", NoUser, FALSE)
    ELSE IF Len(header.tokens) # 1 \/ header.scheme # "Bearer"
    THEN Middleware(401, "Invalid authorization format. Use: Bearer <token>", NoUser, FALSE)
    ELSE LET v == verifyToken(header.tokens[1], t)
         IN  IF ~v.ok THEN Middleware(401, v.message, NoUser, FALSE)
             ELSE IF header.tokens[1].type # "access"
             THEN Middleware(401, "Invalid token type", NoUser, FALSE)
             ELSE Middleware(0, "", header.tokens[1].userId, TRUE)

optionalAuthenticateJWT(header, t) ==
    IF header = NoHeader THEN Middleware(0, "", NoUser, TRUE)
    ELSE IF Len(header.tokens) = 1 /\ header.scheme = "Bearer"
    THEN LET v == verifyToken(header.tokens[1], t)
         IN  IF v.ok /\ header.tokens[1].type = "access"
             THEN Middleware(0, "", header.tokens[1].userId, TRUE)
             ELSE Middleware(0, "", NoUser, TRUE)
    ELSE Middleware(0, "", NoUser, TRUE)

\* The clock's k-th instant: the start, the expiry of an access token signed
\* at the start, the expiry of a refresh token signed at the start, and the
\* milliseconds after it.
JwtTime(k) ==
    IF k = 0 THEN 0
    ELSE IF k = 1 THEN JWT_EXPIRES_IN * 1000
    ELSE JWT_REFRESH_EXPIRES_IN * 1000 + (k - 2)

\* The tokens a client presents: the ones it was given, and what it makes of
\* them without the server's secret: the other type, a later expiry, a
\* signature under another secret, and a string that is no JWT.
Malformed == [NoJwt EXCEPT !.parts = 1]
Forgeries(token) ==
    { [token EXCEPT !.type = IF @ = "access" THEN "refresh" ELSE "access"],
      [token EXCEPT !.exp = @ + JWT_REFRESH_EXPIRES_IN],
      [token EXCEPT !.sig = JwtHmac(OtherSecret, token)] }
Presented ==
    jwtIssued \cup (IF jwtRet.accessToken = NoJwt THEN {} ELSE {jwtRet.accessToken})
              \cup UNION {Forgeries(token) : token \in jwtIssued} \cup {Malformed}
Headers ==
    {NoHeader} \cup {Bearer(token) : token \in Presented}
               \cup {[scheme |-> "Basic", tokens |-> << Malformed >>],
                     [scheme |-> "Bearer", tokens |-> << Malformed, Malformed >>]}
\* The token of a header of the form 'Bearer <token>'.
HeaderToken(header) ==
    IF Len(header.tokens) = 1 /\ header.scheme = "Bearer" THEN header.tokens[1] ELSE NoJwt

(***************************************************************************)
(* Actions of jwt-auth.js: each call runs to its end.                      *)
(***************************************************************************)
JwtTick ==
    /\ ticks < MaxJwtTicks
    /\ ticks' = ticks + 1
    /\ now' = JwtTime(ticks + 1)
    /\ jwtRet' = NoJwtRet
    /\ UNCHANGED << refreshTokenStore, nextJti, jwtIssued, revoked, vaultRest,
                    hookVars, keyVars, lifecycle, box >>

\* generateTokenPair(user): the access token, then the refresh token, whose
\* generation registers it and removes the expired entries.
GenerateTokenPair(userId) ==
    /\ nextJti < MaxPairs
    /\ nextJti' = nextJti + 1
    /\ refreshTokenStore' = StoreAfterGenerate(refreshTokenStore, userId, nextJti + 1, now)
    /\ jwtIssued' = jwtIssued \cup {generateAccessToken(userId, now),
                                    RefreshTokenOfJti(userId, nextJti + 1, now)}
    /\ jwtRet' = [NoJwtRet EXCEPT !.op = "generateTokenPair", !.at = now,
                                  !.outcome = "returns",
                                  !.accessToken = generateAccessToken(userId, now),
                                  !.refreshToken = RefreshTokenOfJti(userId, nextJti + 1, now)]
    /\ UNCHANGED << revoked, now, ticks, vaultRest, hookVars, keyVars, lifecycle, box >>

RefreshAccessToken(token) ==
    /\ LET r == refreshAccessToken(refreshTokenStore, token, now)
       IN  jwtRet' = [NoJwtRet EXCEPT !.op = "refreshAccessToken", !.token = token,
                                      !.at = now, !.outcome = r.outcome,
                                      !.message = r.message,
                                      !.accessToken = r.accessToken]
    /\ refreshTokenStore' = StoreAfterRefresh(refreshTokenStore, token, now)
    /\ UNCHANGED << nextJti, jwtIssued, revoked, now, ticks, vaultRest, hookVars,
                    keyVars, lifecycle, box >>

RevokeRefreshToken(token) ==
    /\ refreshTokenStore' = StoreAfterRevoke(refreshTokenStore, token)
    /\ jwtRet' = [NoJwtRet EXCEPT !.op = "revokeRefreshToken", !.token = token,
                                  !.at = now,
                                  !.outcome = IF RevokeReturns(token) THEN "true"
                                              ELSE "false"]
    /\ revoked' = IF RevokeReturns(token) /\ token.sig = JwtHmac(JWT_SECRET, token)
                  THEN revoked \cup {token}
                  ELSE revoked
    /\ UNCHANGED << nextJti, jwtIssued, now, ticks, vaultRest, hookVars, keyVars, lifecycle, box >>

RevokeAllUserTokens(userId) ==
    /\ refreshTokenStore' = revokeAllUserTokens(refreshTokenStore, userId)
    /\ jwtRet' = [NoJwtRet EXCEPT !.op = "revokeAllUserTokens", !.at = now,
                                  !.user = userId]
    /\ UNCHANGED << nextJti, jwtIssued, revoked, now, ticks, vaultRest, hookVars,
                    keyVars, lifecycle, box >>

\* POST /api/auth/change-password for req.user.id = userId: the awaits of
\* bcrypt come before the revocation, the response follows it in the same job.
ChangePassword(userId, check) ==
    /\ refreshTokenStore' = IF changePasswordStatus(check) = 200
                            THEN revokeAllUserTokens(refreshTokenStore, userId)
                            ELSE refreshTokenStore
    /\ jwtRet' = [NoJwtRet EXCEPT !.op = "changePassword", !.at = now,
                                  !.user = userId,
                                  !.status = changePasswordStatus(check)]
    /\ UNCHANGED << nextJti, jwtIssued, revoked, now, ticks, vaultRest, hookVars,
                    keyVars, lifecycle, box >>

\* The hourly setInterval callback.
CleanExpiredRefreshTokens ==
    /\ refreshTokenStore' = cleanExpiredRefreshTokens(refreshTokenStore, now)
    /\ jwtRet' = [NoJwtRet EXCEPT !.op = "cleanExpiredRefreshTokens", !.at = now]
    /\ UNCHANGED << nextJti, jwtIssued, revoked, now, ticks, vaultRest, hookVars,
                    keyVars, lifecycle, box >>

AuthenticateJWT(header) ==
    /\ LET a == authenticateJWT(header, now)
       IN  jwtRet' = [NoJwtRet EXCEPT !.op = "authenticateJWT",
                                      !.token = HeaderToken(header), !.at = now,
                                      !.message = a.message, !.status = a.status,
                                      !.user = a.user, !.next = a.next]
    /\ UNCHANGED << refreshTokenStore, nextJti, jwtIssued, revoked, now, ticks,
                    vaultRest, hookVars, keyVars, lifecycle, box >>

OptionalAuthenticateJWT(header) ==
    /\ LET a == optionalAuthenticateJWT(header, now)
       IN  jwtRet' = [NoJwtRet EXCEPT !.op = "optionalAuthenticateJWT",
                                      !.token = HeaderToken(header), !.at = now,
                                      !.message = a.message, !.status = a.status,
                                      !.user = a.user, !.next = a.next]
    /\ UNCHANGED << refreshTokenStore, nextJti, jwtIssued, revoked, now, ticks,
                    vaultRest, hookVars, keyVars, lifecycle, box >>

JwtNext ==
    \/ JwtTick
    \/ \E userId \in JwtUsers : GenerateTokenPair(userId)
    \/ \E token \in Presented : RefreshAccessToken(token)
    \/ \E token \in Presented : RevokeRefreshToken(token)
    \/ \E userId \in JwtUsers : RevokeAllUserTokens(userId)
    \/ \E userId \in JwtUsers, check \in ChangePasswordChecks :
          ChangePassword(userId, check)
    \/ CleanExpiredRefreshTokens
    \/ \E header \in Headers : AuthenticateJWT(header)
    \/ \E header \in Headers : OptionalAuthenticateJWT(header)

\* The JWT module under logins, refreshes, logouts and authenticated requests.
SpecJwt == VaultInit /\ [][JwtNext]_vars

(***************************************************************************)
(* auth/api-key-auth.js                                                    *)
(*                                                                         *)
(* Keys, hashes and map keys are strings (sequences of character codes);   *)
(* the ISO timestamps of a record are the milliseconds they denote.        *)
(***************************************************************************)
\* 'rva_' and the k-th crypto.randomBytes(32).toString('hex').
SecretOf(k) == << 114, 118, 97, 95, 48 + k >>
\* 'key_' and the k-th crypto.randomBytes(8).toString('hex').
KeyIdOf(k) == "key_" \o ToString(k)
\* The DEFAULT_API_KEY of a deployment that sets one.
DefaultSecret == << 114, 118, 97, 95, 100 >>

HexDigit(n) == IF n < 10 THEN 48 + n ELSE 87 + n
\* buffer.toString('hex').
HexEncode(bytes) == [i \in 1..(2 * Len(bytes)) |-> IF i % 2 = 1 THEN HexDigit(bytes[(i + 1) \div 2] \div 16) ELSE HexDigit(bytes[i \div 2] % 16)]

\* createHash('sha256').update(s).digest('hex'): 32 bytes that s determines
\* (an arithmetic stand-in for SHA-256), in hexadecimal.
Sha256Hex(s) ==
    LET h == WeightedSum(s, 1) + Len(s)
    IN  HexEncode([j \in 1..32 |-> (h * j + j) % 256])

\* apiKeys.set(key, data), and the key under which a record of that id is.
KeysSet(map, key, data) == [k \in DOMAIN map \cup {key} |-> IF k = key THEN data ELSE map[k]]
KeyOfId(map, keyId) == {k \in DOMAIN map : map[k].id = keyId}

\* The record initDefaultApiKey sets: it has neither keyHash nor expiresAt.
DefaultKeyData(t) ==
    [id |-> "key_default", keyHash |-> << >>, scopes |-> {"read", "write", "webhooks"},
     createdAt |-> t, expiresAt |-> Null, lastUsedAt |-> Null, active |-> TRUE,
     revokedAt |-> Null]

\* apiKeys after initDefaultApiKey(): the record is set under
\* process.env.DEFAULT_API_KEY itself.
initDefaultApiKey(defaultKey, t) ==
    IF defaultKey # NoSecret THEN KeysSet(<< >>, defaultKey, DefaultKeyData(t)) ELSE << >>

\* The keyData of generateApiKey; expiresIn is 0 when the option is left out.
NewKeyData(k, scopes, expiresIn, t) ==
    [id |-> KeyIdOf(k), keyHash |-> Sha256Hex(SecretOf(k)), scopes |-> scopes,
     createdAt |-> t, expiresAt |-> IF expiresIn # 0 THEN t + expiresIn ELSE Null,
     lastUsedAt |-> Null, active |-> TRUE, revokedAt |-> Null]

\* apiKeys after generateApiKey(options), k being the key's serial number.
generateApiKey(map, k, scopes, expiresIn, t) ==
    KeysSet(map, Sha256Hex(SecretOf(k)), NewKeyData(k, scopes, expiresIn, t))

\* A verifyApiKey that takes a record as expired from its expiresAt on.
VerifiesAtExpiry(map, apiKey, t) ==
    /\ apiKey # NoSecret
    /\ Sha256Hex(apiKey) \in DOMAIN map
    /\ map[Sha256Hex(apiKey)].active
    /\ ~(map[Sha256Hex(apiKey)].expiresAt # Null /\ map[Sha256Hex(apiKey)].expiresAt <= t)

\* verifyApiKey returns a record, not null.
Verifies(map, apiKey, t) ==
    /\ apiKey # NoSecret
    /\ Sha256Hex(apiKey) \in DOMAIN map
    /\ map[Sha256Hex(apiKey)].active
    /\ ~(map[Sha256Hex(apiKey)].expiresAt # Null /\ map[Sha256Hex(apiKey)].expiresAt < t)

\* apiKeys after verifyApiKey(apiKey), and what it returns.
verifyApiKey(map, apiKey, t) ==
    IF Verifies(map, apiKey, t)
    THEN [map EXCEPT ![Sha256Hex(apiKey)].lastUsedAt = t]
    ELSE map
VerifiedKeyData(map, apiKey, t) ==
    IF Verifies(map, apiKey, t) THEN verifyApiKey(map, apiKey, t)[Sha256Hex(apiKey)]
    ELSE NoKeyData

\* A revokeApiKey that deletes the record.
revokeApiKeyDeleting(map, keyId, t) ==
    [k \in {x \in DOMAIN map : map[x].id # keyId} |-> map[k]]

\* apiKeys after revokeApiKey(keyId): ids are unique.
revokeApiKey(map, keyId, t) ==
    [k \in DOMAIN map |-> IF map[k].id = keyId
                          THEN [map[k] EXCEPT !.active = FALSE, !.revokedAt = t]
                          ELSE map[k]]

\* The clock's k-th instant: the start, the expiresAt of a key generated at
\* the start, and the milliseconds after it.
KeyLifetime == 1000
KeyTime(k) == IF k = 0 THEN 0 ELSE KeyLifetime + (k - 1)

\* The keys requests carry: none, the generated ones, the configured default
\* key, one that was never generated, and the stored hash of the first key.
PresentedKeys ==
    {NoSecret, DefaultSecret, SecretOf(9), Sha256Hex(SecretOf(1))}
        \cup {SecretOf(k) : k \in 1..nextKey}
\* The options of generateApiKey: the defaults, and scopes with a lifetime.
KeyOptions ==
    { [scopes |-> {"read"}, expiresIn |-> 0],
      [scopes |-> {"read", "write"}, expiresIn |-> KeyLifetime] }
KeyIds == {"key_default", KeyIdOf(9)} \cup {KeyIdOf(k) : k \in 1..MaxKeys}

(***************************************************************************)
(* The state after api-key-auth.js is loaded, and its calls.               *)
(***************************************************************************)
KeyInit ==
    /\ now = 0
    /\ ticks = 0
    /\ tokenStore = << >>
    /\ csrfTokens = << >>
    /\ nextState = 0
    /\ issued = 0
    /\ gat = [c \in Callers |-> IdleCall]
    /\ sweep = IdleSweep
    /\ cb = [c \in CallbackIds |-> IdleCallback]
    /\ ret = NoRet
    /\ exchanged = [s \in 1..MaxStates |-> 0]
    /\ lastStored = [k \in Keys |-> NothingStored]
    /\ authorizedFor = [s \in 1..MaxStates |-> ""]
    /\ sweepLog = NoSweepLog
    /\ SIGNATURE_KEY = NoKey
    /\ processedEvents = << >>
    /\ immediateQueue = << >>
    /\ deliveries = 0
    /\ response = NoWebhookResponse
    /\ handled = [id \in EventIds |-> 0]
    /\ evicted = {}
    /\ request = NoRequest
    /\ answered = << >>
    /\ started = 0
    /\ warnings = 0
    /\ refreshTokenStore = << >>
    /\ nextJti = 0
    /\ jwtIssued = {}
    /\ jwtRet = NoJwtRet
    /\ revoked = {}
    /\ DEFAULT_API_KEY \in {NoSecret, DefaultSecret}
    /\ apiKeys = initDefaultApiKey(DEFAULT_API_KEY, 0)
    /\ nextKey = 0
    /\ keyRet = NoKeyRet
    /\ lifecycle = "running"
    /\ box = NoBox

KeyTick ==
    /\ ticks < MaxKeyTicks
    /\ ticks' = ticks + 1
    /\ now' = KeyTime(ticks + 1)
    /\ keyRet' = NoKeyRet
    /\ UNCHANGED << DEFAULT_API_KEY, apiKeys, nextKey, vaultRest, hookVars, jwtVars, lifecycle, box >>

GenerateApiKey(scopes, expiresIn) ==
    /\ nextKey < MaxKeys
    /\ nextKey' = nextKey + 1
    /\ apiKeys' = generateApiKey(apiKeys, nextKey + 1, scopes, expiresIn, now)
    /\ keyRet' = [NoKeyRet EXCEPT !.op = "generateApiKey", !.at = now,
                                  !.key = SecretOf(nextKey + 1),
                                  !.keyData = [NewKeyData(nextKey + 1, scopes, expiresIn, now)
                                                  EXCEPT !.keyHash = << >>]]
    /\ UNCHANGED << DEFAULT_API_KEY, now, ticks, vaultRest, hookVars, jwtVars, lifecycle, box >>

VerifyApiKey(apiKey) ==
    /\ apiKeys' = verifyApiKey(apiKeys, apiKey, now)
    /\ keyRet' = [NoKeyRet EXCEPT !.op = "verifyApiKey", !.apiKey = apiKey, !.at = now,
                                  !.found = Verifies(apiKeys, apiKey, now),
                                  !.keyData = VerifiedKeyData(apiKeys, apiKey, now)]
    /\ UNCHANGED << DEFAULT_API_KEY, nextKey, now, ticks, vaultRest, hookVars, jwtVars, lifecycle, box >>

RevokeApiKey(keyId) ==
    /\ apiKeys' = revokeApiKey(apiKeys, keyId, now)
    /\ keyRet' = [NoKeyRet EXCEPT !.op = "revokeApiKey", !.keyId = keyId, !.at = now,
                                  !.found = KeyOfId(apiKeys, keyId) # {}]
    /\ UNCHANGED << DEFAULT_API_KEY, nextKey, now, ticks, vaultRest, hookVars, jwtVars, lifecycle, box >>

KeyNext ==
    \/ KeyTick
    \/ \E o \in KeyOptions : GenerateApiKey(o.scopes, o.expiresIn)
    \/ \E apiKey \in PresentedKeys : VerifyApiKey(apiKey)
    \/ \E keyId \in KeyIds : RevokeApiKey(keyId)

\* The API-key registry under key generation, verification and revocation.
SpecApiKey == KeyInit /\ [][KeyNext]_vars

(***************************************************************************)
(* api-key-auth.js: the middlewares.  req.apiKey is the id and the scopes  *)
(* of the verified record, and NoKeyData while no middleware has set it.   *)
(***************************************************************************)
\* A hasScope that knows no wildcard.
hasScopeExact(keyData, scope) ==
    IF keyData = NoKeyData THEN FALSE ELSE scope \in keyData.scopes

hasScope(keyData, scope) ==
    IF keyData = NoKeyData THEN FALSE
    ELSE scope \in keyData.scopes \/ "*" \in keyData.scopes

\* authenticateApiKey: the key of the X-API-Key header, the Authorization
\* header or the query string; what it answers (status 0: nothing), the
\* req.apiKey it attaches, and whether it calls next().
authenticateApiKey(map, apiKey, t) ==
    IF apiKey = NoSecret
    THEN [status |-> 401, apiKey |-> NoKeyData, next |-> FALSE]
    ELSE IF ~Verifies(map, apiKey, t)
    THEN [status |-> 401, apiKey |-> NoKeyData, next |-> FALSE]
    ELSE [status |-> 0,
          apiKey |-> [NoKeyData EXCEPT !.id = VerifiedKeyData(map, apiKey, t).id,
                                       !.scopes = VerifiedKeyData(map, apiKey, t).scopes],
          next |-> TRUE]

\* The middleware requireScope(requiredScope) returns.
requireScope(reqApiKey, requiredScope) ==
    IF reqApiKey = NoKeyData THEN [status |-> 401, next |-> FALSE]
    ELSE IF ~hasScope(reqApiKey, requiredScope) THEN [status |-> 403, next |-> FALSE]
    ELSE [status |-> 0, next |-> TRUE]

\* The scopes keys are generated with, and the scopes routes require.
ScopeOptions == {{"read"}, {"*"}, {"write", "webhooks"}}
RequiredScopes == {"read", "write", "admin"}

\* A request to a route behind authenticateApiKey and requireScope(scope).
ScopedRequest(apiKey, scope) ==
    /\ apiKeys' = verifyApiKey(apiKeys, apiKey, now)
    /\ LET a == authenticateApiKey(apiKeys, apiKey, now)
           r == requireScope(a.apiKey, scope)
       IN  keyRet' = [NoKeyRet EXCEPT !.op = "scopedRequest", !.apiKey = apiKey,
                                      !.scope = scope, !.at = now,
                                      !.keyData = a.apiKey,
                                      !.found = a.next,
                                      !.status = IF a.next THEN r.status ELSE a.status,
                                      !.next = a.next /\ r.next]
    /\ UNCHANGED << DEFAULT_API_KEY, nextKey, now, ticks, vaultRest, hookVars, jwtVars, lifecycle, box >>

\* A request that reaches requireScope(scope) with no API key attached, as
\* one that authenticateJWTOrApiKey let through on its JWT.
RequireScope(scope) ==
    /\ LET r == requireScope(NoKeyData, scope)
       IN  keyRet' = [NoKeyRet EXCEPT !.op = "requireScope", !.scope = scope, !.at = now,
                                      !.status = r.status, !.next = r.next]
    /\ UNCHANGED << DEFAULT_API_KEY, apiKeys, nextKey, now, ticks, vaultRest, hookVars,
                    jwtVars, lifecycle, box >>

ScopeNext ==
    \/ \E scopes \in ScopeOptions : GenerateApiKey(scopes, 0)
    \/ \E keyId \in KeyIds : RevokeApiKey(keyId)
    \/ \E apiKey \in PresentedKeys, scope \in RequiredScopes : ScopedRequest(apiKey, scope)
    \/ \E scope \in RequiredScopes : RequireScope(scope)

\* The API-key middlewares in front of scoped routes.
SpecScope == KeyInit /\ [][ScopeNext]_vars

(***************************************************************************)
(* Properties.                                                             *)
(***************************************************************************)
\* The record tokenStore holds for (platform, merchantId).
RecordOf(platform, merchantId) == MapGet(tokenStore, KeyOf(platform, merchantId))

\* C1: for each (platform, merchantId) key at most one call of the refresh
\* function is in flight at any time, whether the callers are request
\* handlers or the periodic autoRefreshSquareTokens.
C1_OneRefreshInFlightPerKey ==
    \A k \in Keys :
        Cardinality({c \in Callers :
                        /\ gat[c].pc = "refreshing"
                        /\ KeyOf(gat[c].platform, gat[c].merchantId) = k}) <= 1

\* C2: after storeTokens of a record with access token t and an expiresAt
\* later than one day from now, a getAccessToken for the same platform and
\* merchant, with no other operation on the key in between, returns exactly t.
C2_StoredTokenIsReturned ==
    (/\ ret.op = "getAccessToken"
     /\ ~ret.awaited
     /\ MapHas(tokenStore, KeyOf(ret.platform, ret.merchantId))
     /\ RecordOf(ret.platform, ret.merchantId).expiresAt > now + 24 * 60 * 60 * 1000
     /\ lastStored[KeyOf(ret.platform, ret.merchantId)].accessToken # NoToken)
    => /\ ret.outcome = "returned"
       /\ ret.result = lastStored[KeyOf(ret.platform, ret.merchantId)].accessToken

\* A getAccessToken call returned the token a storeTokens call was given for a
\* Square record that expires more than one day from now.
C2_Witness ==
    /\ ret.op = "getAccessToken"
    /\ ret.platform = "square"
    /\ ret.outcome = "returned"
    /\ ~ret.awaited
    /\ ret.result = AccessTokenOf(0)
    /\ MapHas(tokenStore, KeyOf("square", ret.merchantId))
    /\ RecordOf("square", ret.merchantId).expiresAt > now + 24 * 60 * 60 * 1000
    /\ now > 0

\* C3: getAccessToken('square', m) on a record whose expiresAt is at most one
\* day after now calls the refresh function with the stored refresh token,
\* decrypted; when that succeeds it stores the tokens returned and returns the
\* new access token.  On a record that expires later it returns the stored
\* access token, calls no refresh function and leaves the store unchanged.
C3_RefreshWithinOneDay ==
    [][/\ \A c \in Callers :
             (gat'[c].pc = "refreshing" /\ gat[c].pc # "refreshing")
             => /\ gat'[c].platform = "square"
                /\ MapHas(tokenStore', KeyOf("square", gat'[c].merchantId))
                /\ MapGet(tokenStore', KeyOf("square", gat'[c].merchantId)).expiresAt
                      <= now' + 24 * 60 * 60 * 1000
                /\ gat'[c].sent
                      = lastStored'[KeyOf("square", gat'[c].merchantId)].refreshToken
       /\ (/\ ret'.op = "getAccessToken"
           /\ ret'.platform = "square"
           /\ ~ret'.awaited
           /\ MapHas(tokenStore', KeyOf("square", ret'.merchantId)))
          => /\ MapGet(tokenStore', KeyOf("square", ret'.merchantId)).expiresAt
                   > now' + 24 * 60 * 60 * 1000
             /\ ret'.outcome = "returned"
             /\ ret'.result = lastStored'[KeyOf("square", ret'.merchantId)].accessToken
             /\ tokenStore' = tokenStore
             /\ gat' = gat
       /\ (ret'.op = "getAccessToken" /\ ret'.awaited /\ ret'.resp.ok)
          => /\ ret'.outcome = "returned"
             /\ ret'.result = ret'.resp.accessToken
             /\ MapHas(tokenStore', KeyOf("square", ret'.merchantId))
             /\ LET rec == MapGet(tokenStore', KeyOf("square", ret'.merchantId))
                IN  /\ decrypt(rec.accessToken) = ret'.resp.accessToken
                    /\ decrypt(rec.refreshToken) = ret'.resp.refreshToken
                    /\ rec.expiresAt = ret'.resp.expiresAt
      ]_vars

\* A getAccessToken call refreshed a record exactly one day before its expiry
\* and returned the new access token, which the store now holds.
C3_Witness ==
    /\ ret.op = "getAccessToken"
    /\ ret.awaited
    /\ ret.outcome = "returned"
    /\ ret.result = AccessTokenOf(1)
    /\ now = CsrfMaxAgeMs
    /\ MapHas(tokenStore, KeyOf("square", ret.merchantId))
    /\ decrypt(RecordOf("square", ret.merchantId).accessToken) = AccessTokenOf(1)

\* C4: when the refresh function fails, getAccessToken fails with
\* 'Access token expired and refresh failed' and the store is exactly what it
\* was before the call.
C4_FailedRefreshKeepsRecord ==
    [][\A c \in Callers :
          (gat[c].pc = "responded" /\ ~gat[c].resp.ok /\ gat'[c] # gat[c])
          => /\ ret'.op = "getAccessToken"
             /\ ret'.awaited
             /\ ret'.merchantId = gat[c].merchantId
             /\ ret'.outcome = "threw"
             /\ ret'.message = "Access token expired and refresh failed"
             /\ tokenStore' = tokenStore
      ]_vars

\* A getAccessToken call failed after its refresh failed, and the record is
\* still the one storeTokens wrote.
C4_Witness ==
    /\ ret.op = "getAccessToken"
    /\ ret.awaited
    /\ ~ret.resp.ok
    /\ ret.outcome = "threw"
    /\ MapHas(tokenStore, KeyOf("square", ret.merchantId))
    /\ decrypt(RecordOf("square", ret.merchantId).accessToken) = AccessTokenOf(0)

\* C5: a CSRF state is single-use: of all the callbacks that carry the state
\* authorize issued, at most one passes the validation, and every later one
\* is answered 400 'Invalid state parameter'.
C5_StateIsSingleUse ==
    \A s \in 1..MaxStates :
        /\ exchanged[s] <= 1
        /\ exchanged[s] = 1
           => /\ s \notin DOMAIN csrfTokens
              /\ CallbackStart(csrfTokens, s, "").pc = "done"
              /\ CallbackStart(csrfTokens, s, "").status = 400
              /\ CallbackStart(csrfTokens, s, "").body = "Invalid state parameter"
              /\ (ret.op = "callback" /\ ret.state = s /\ ret.param = ""
                     /\ ~ret.awaited)
                 => ret.status = 400 /\ ret.message = "Invalid state parameter"

\* A second callback with a state that an earlier callback consumed was
\* answered 400.
C5_Witness ==
    \E s \in 1..MaxStates :
        /\ exchanged[s] = 1
        /\ ret.op = "callback"
        /\ ret.state = s
        /\ ret.param = ""
        /\ ~ret.awaited
        /\ ret.status = 400
        /\ ret.message = "Invalid state parameter"

\* C6: a callback whose state is not pending (never issued, forged, consumed
\* or swept) is answered 400 before any code exchange, and changes neither
\* csrfTokens nor tokenStore.
C6_UnknownStateRejected ==
    [][/\ \A c \in CallbackIds :
             (cb'[c].pc = "exchanging" /\ cb[c].pc # "exchanging")
             => cb'[c].state \in DOMAIN csrfTokens
       /\ (/\ ret'.op = "callback"
           /\ ret'.param = ""
           /\ ~ret'.awaited
           /\ ret'.state \notin DOMAIN csrfTokens)
          => /\ ret'.status = 400
             /\ ret'.message = "Invalid state parameter"
             /\ csrfTokens' = csrfTokens
             /\ tokenStore' = tokenStore
             /\ cb' = cb
             /\ exchanged' = exchanged
      ]_vars

\* A callback with a state authorize never issued was answered 400 while a
\* state was pending, and the pending state is still there.
C6_Witness ==
    /\ ret.op = "callback"
    /\ ret.param = ""
    /\ ret.state = 0
    /\ ret.status = 400
    /\ ret.message = "Invalid state parameter"
    /\ DOMAIN csrfTokens # {}
    /\ tokenStore # << >>

\* C7: a callback whose state was issued more than 10 minutes earlier is
\* rejected, even if the state is unused and still in csrfTokens.
C7_ExpiredStateRejected ==
    \A s \in DOMAIN csrfTokens :
        now - csrfTokens[s].timestamp > 10 * 60 * 1000
        => CallbackStart(csrfTokens, s, "").pc = "done"

\* C8: a callback with an error parameter is answered 400 with that error
\* before any other check: no state is consumed, no code is exchanged and
\* nothing is stored.
C8_ErrorParameterFirst ==
    [][/\ \A c \in CallbackIds :
             (cb'[c].pc = "exchanging" /\ cb[c].pc # "exchanging")
             => cb'[c].error = ""
       /\ (ret'.op = "callback" /\ ret'.param # "")
          => /\ ret'.status = 400
             /\ ret'.message = ret'.param
             /\ csrfTokens' = csrfTokens
             /\ tokenStore' = tokenStore
             /\ cb' = cb
             /\ exchanged' = exchanged
      ]_vars

\* A callback with an error parameter and a pending state was answered 400
\* with the error, and the state is still pending.
C8_Witness ==
    /\ ret.op = "callback"
    /\ ret.param = "access_denied"
    /\ ret.status = 400
    /\ ret.message = "access_denied"
    /\ ret.state \in DOMAIN csrfTokens

\* C9: after authorize(restaurantId) issued state s and callback(code, s)
\* succeeded with merchant m and access token t, the record of ('square', m)
\* carries that restaurantId and getAccessToken('square', m) returns t.
C9_CallbackTokenIsReturned ==
    \A m \in Merchants :
        (MapHas(tokenStore, KeyOf("square", m))
         /\ lastStored[KeyOf("square", m)].state # 0)
        => /\ RecordOf("square", m).restaurantId
                 = authorizedFor[lastStored[KeyOf("square", m)].state]
           /\ GetAccessTokenStart(tokenStore, "square", m, now).pc = "returned"
           /\ GetAccessTokenStart(tokenStore, "square", m, now).result
                 = lastStored[KeyOf("square", m)].accessToken

\* C9, amended: the record carries the restaurantId, and getAccessToken
\* returns t as long as the record expires more than one day from now.
C9_CallbackTokenIsReturnedUntilWindow ==
    \A m \in Merchants :
        (MapHas(tokenStore, KeyOf("square", m))
         /\ lastStored[KeyOf("square", m)].state # 0)
        => /\ RecordOf("square", m).restaurantId
                 = authorizedFor[lastStored[KeyOf("square", m)].state]
           /\ RecordOf("square", m).expiresAt > now + 24 * 60 * 60 * 1000
              => /\ GetAccessTokenStart(tokenStore, "square", m, now).pc = "returned"
                 /\ GetAccessTokenStart(tokenStore, "square", m, now).result
                       = lastStored[KeyOf("square", m)].accessToken
                 /\ (ret.op = "getAccessToken" /\ ret.merchantId = m /\ ~ret.awaited)
                    => /\ ret.outcome = "returned"
                       /\ ret.result = lastStored[KeyOf("square", m)].accessToken

\* After authorize('rest_1') and a successful callback, a getAccessToken call
\* for the callback's merchant returned the callback's access token.
C9_Witness ==
    \E m \in Merchants :
        /\ MapHas(tokenStore, KeyOf("square", m))
        /\ lastStored[KeyOf("square", m)].state # 0
        /\ RecordOf("square", m).restaurantId = "rest_1"
        /\ ret.op = "getAccessToken"
        /\ ret.merchantId = m
        /\ ~ret.awaited
        /\ ret.outcome = "returned"
        /\ ret.result = lastStored[KeyOf("square", m)].accessToken

\* C10: of the deliveries of a webhook event with one event_id, only the
\* first enters the downstream handler, as long as the id has not been
\* evicted from processedEvents.
C10_HandledOncePerEventId ==
    \A id \in EventIds \ evicted : handled[id] <= 1

\* The signature header Square computes for a body under the configured key.
SignatureOf(body) == HmacSha256Base64(SIGNATURE_KEY, NOTIFICATION_URL \o body)

C12_BadSignatureAnswered401 ==
    (/\ SIGNATURE_KEY # NoKey
     /\ request # NoRequest
     /\ request.signature # SignatureOf(request.body))
    => response.status = 401

\* C12, amended: with a signature key configured, only a request whose
\* signature verifies puts an event before processEvent; a request with a
\* missing or wrong signature is answered 401, or 400 when its body is not
\* JSON, dispatches nothing and leaves processedEvents unchanged; processEvent
\* dispatches and records only the event at the head of the queue.
C12_UnverifiedNeverProcessed ==
    [][/\ (SIGNATURE_KEY # NoKey /\ deliveries' = deliveries + 1)
          => /\ immediateQueue' # immediateQueue
                => request'.signature = SignatureOf(request'.body)
             /\ request'.signature # SignatureOf(request'.body)
                => /\ response'.status
                         = IF JsonParse(request'.body).ok THEN 401 ELSE 400
                   /\ immediateQueue' = immediateQueue
                   /\ processedEvents' = processedEvents
                   /\ handled' = handled
       /\ (processedEvents' # processedEvents \/ handled' # handled)
          => /\ immediateQueue # << >>
             /\ immediateQueue' = Tail(immediateQueue)
             /\ \A id \in EventIds \ {Head(immediateQueue).event_id} :
                   /\ handled'[id] = handled[id]
                   /\ (\E i \in 1..Len(processedEvents') : processedEvents'[i] = id)
                      => \E i \in 1..Len(processedEvents) : processedEvents[i] = id
      ]_vars

\* With a key configured, a request without signature header was answered 401
\* while an accepted event was waiting, and the event is still waiting.
C12_Witness ==
    /\ SIGNATURE_KEY # NoKey
    /\ request # NoRequest
    /\ request.signature = NoSignature
    /\ JsonParse(request.body).ok
    /\ response.status = 401
    /\ Len(immediateQueue) = 1

\* The requests answered 200 so far.
Acknowledged == {i \in 1..Len(answered) : answered[i] = << 200 >>}

\* C13: for every accepted webhook the 200 is sent before processEvent
\* starts, and no outcome of the processing produces a second or a different
\* response for the request.
C13_AcknowledgedOnceBeforeProcessing ==
    /\ [](/\ \A i \in 1..Len(answered) : Len(answered[i]) = 1
          /\ Cardinality(Acknowledged) = started + Len(immediateQueue))
    /\ [][started' # started => answered' = answered]_vars

\* The handler of event 1002 threw (it was entered, the id is not recorded)
\* and the request still has its one 200.
C13_Witness ==
    /\ started = 1
    /\ handled[1002] = 1
    /\ \A i \in 1..Len(processedEvents) : processedEvents[i] # 1002
    /\ answered = << << 200 >> >>

\* C14: with a signature key configured, verifySignature(body, signature) is
\* true exactly when signature is the base64 HMAC-SHA256 of notificationUrl
\* followed by body under the key; for any other signature (changed, of
\* another length, missing) and for any changed body it is false, and it
\* never throws.
C14_VerifiesExactlyTheHmac ==
    SIGNATURE_KEY # NoKey
    => /\ \A body \in Bodies : \A signature \in SignaturesFor(body) :
             /\ verifySignature(SIGNATURE_KEY, body, signature) \in BOOLEAN
             /\ verifySignature(SIGNATURE_KEY, body, signature)
                   = (signature = SignatureOf(body))
       /\ (request # NoRequest /\ JsonParse(request.body).ok)
          => /\ response.status \in {200, 401}
             /\ response.status = 200 <=> request.signature = SignatureOf(request.body)

\* A request that carried the valid signature of another body was answered 401.
C14_Witness ==
    /\ SIGNATURE_KEY # NoKey
    /\ request # NoRequest
    /\ request.body = Body(OrderCreated, 1002, WithoutOrder)
    /\ request.signature = SignatureOf(Body(OrderCreated, 1001, WithOrder))
    /\ request.signature # SignatureOf(request.body)
    /\ response.status = 401

\* The token was signed with the server's secret and is not expired at t (ms).
ValidUnexpired(token, t) ==
    /\ token.parts = 3
    /\ token.sig = JwtHmac(JWT_SECRET, token)
    /\ (t \div 1000) < token.exp

\* C15: a valid, unexpired refresh-type token is never accepted as an access
\* token (authenticateJWT answers 401 and does not call next,
\* optionalAuthenticateJWT leaves req.user unset), and a valid, unexpired
\* access-type token is never accepted by refreshAccessToken.
C15_TokenTypesNotInterchangeable ==
    /\ (/\ jwtRet.op = "authenticateJWT"
        /\ ValidUnexpired(jwtRet.token, jwtRet.at)
        /\ jwtRet.token.type = "refresh")
       => (jwtRet.status = 401 /\ ~jwtRet.next /\ jwtRet.user = NoUser)
    /\ (/\ jwtRet.op = "optionalAuthenticateJWT"
        /\ ValidUnexpired(jwtRet.token, jwtRet.at)
        /\ jwtRet.token.type = "refresh")
       => jwtRet.user = NoUser
    /\ (/\ jwtRet.op = "refreshAccessToken"
        /\ ValidUnexpired(jwtRet.token, jwtRet.at)
        /\ jwtRet.token.type = "access")
       => (jwtRet.outcome = "throws" /\ jwtRet.accessToken = NoJwt)

\* authenticateJWT has just rejected a valid, unexpired refresh token sent as
\* a Bearer token.
C15_Witness ==
    /\ jwtRet.op = "authenticateJWT"
    /\ ValidUnexpired(jwtRet.token, jwtRet.at)
    /\ jwtRet.token.type = "refresh"
    /\ jwtRet.token.jti \in DOMAIN refreshTokenStore
    /\ jwtRet.status = 401
    /\ jwtRet.message = "Invalid token type"

\* C16: once revokeRefreshToken(r) has returned true, every later
\* refreshAccessToken(r) made while r's signature and expiry are still valid
\* throws 'Refresh token revoked or invalid', and a tokenId that has left
\* the registry is never registered again.
C16_RevokedStaysRevoked ==
    /\ [](( /\ jwtRet.op = "refreshAccessToken"
            /\ jwtRet.token \in revoked
            /\ ValidUnexpired(jwtRet.token, jwtRet.at) )
          => ( /\ jwtRet.outcome = "throws"
               /\ jwtRet.message = "Refresh token revoked or invalid"
               /\ jwtRet.accessToken = NoJwt ))
    /\ [][\A j \in 1..nextJti :
              j \notin DOMAIN refreshTokenStore => j \notin DOMAIN refreshTokenStore']_vars

\* refreshAccessToken has just refused a revoked refresh token that is still
\* valid, after a later login registered another one.
C16_Witness ==
    /\ jwtRet.op = "refreshAccessToken"
    /\ jwtRet.token \in revoked
    /\ ValidUnexpired(jwtRet.token, jwtRet.at)
    /\ jwtRet.message = "Refresh token revoked or invalid"
    /\ \E j \in DOMAIN refreshTokenStore : j > jwtRet.token.jti

\* C17: a refreshAccessToken(r) that returns gives a new access token and no
\* refresh token, leaves refreshTokenStore as it was, and r is accepted by
\* a refreshAccessToken that follows at once.
C17_RefreshLeavesRegistry ==
    [][( /\ jwtRet'.op = "refreshAccessToken"
         /\ jwtRet'.outcome = "returns" )
       => ( /\ refreshTokenStore' = refreshTokenStore
            /\ jwtRet'.refreshToken = NoJwt
            /\ jwtRet'.accessToken.type = "access"
            /\ ValidUnexpired(jwtRet'.accessToken, now')
            /\ jwtRet'.token.jti \in DOMAIN refreshTokenStore'
            /\ refreshAccessToken(refreshTokenStore', jwtRet'.token, now').outcome
                   = "returns" )]_vars

\* refreshAccessToken has just returned an access token for a registered
\* refresh token, after the access token of the login has expired.
C17_Witness ==
    /\ jwtRet.op = "refreshAccessToken"
    /\ jwtRet.outcome = "returns"
    /\ jwtRet.token.jti \in DOMAIN refreshTokenStore
    /\ jwtRet.accessToken \notin jwtIssued
    /\ jwtRet.at >= (jwtRet.token.iat + 900) * 1000

\* C18: refreshAccessToken of a refresh token the server signed that is
\* past its expiresAt throws 'Token expired' and gives no access token,
\* whether its registry entry is still there or not; a well-formed token
\* whose signature does not verify throws 'Invalid token'.
C18_ExpiredRefreshTokenRejected ==
    /\ (/\ jwtRet.op = "refreshAccessToken"
        /\ jwtRet.token.parts = 3
        /\ jwtRet.token.sig = JwtHmac(JWT_SECRET, jwtRet.token)
        /\ jwtRet.token.type = "refresh"
        /\ jwtRet.at > jwtRet.token.exp * 1000)
       => ( /\ jwtRet.outcome = "throws"
            /\ jwtRet.message = "Token expired"
            /\ jwtRet.accessToken = NoJwt )
    /\ (/\ jwtRet.op = "refreshAccessToken"
        /\ jwtRet.token.parts = 3
        /\ jwtRet.token.sig # JwtHmac(JWT_SECRET, jwtRet.token))
       => ( /\ jwtRet.outcome = "throws"
            /\ jwtRet.message = "Invalid token"
            /\ jwtRet.accessToken = NoJwt )

\* refreshAccessToken has just refused an expired refresh token whose
\* registry entry the sweep has not removed yet.
C18_Witness ==
    /\ jwtRet.op = "refreshAccessToken"
    /\ jwtRet.token.sig = JwtHmac(JWT_SECRET, jwtRet.token)
    /\ jwtRet.token.type = "refresh"
    /\ jwtRet.at > jwtRet.token.exp * 1000
    /\ jwtRet.token.jti \in DOMAIN refreshTokenStore
    /\ jwtRet.message = "Token expired"


\* The raw key secrets there are: the configured default key and the keys
\* generateApiKey has returned.
RawSecrets ==
    {SecretOf(k) : k \in 1..nextKey}
        \cup (IF DEFAULT_API_KEY = NoSecret THEN {} ELSE {DEFAULT_API_KEY})

\* C19: in every reachable state of the API-key registry, the state after
\* startup included, no map key and no field of a record is a raw key
\* secret: every record is stored under the one-way hash of its secret.
C19_NoRawSecretStored ==
    \A k \in DOMAIN apiKeys :
        /\ k \notin RawSecrets
        /\ apiKeys[k].keyHash \notin RawSecrets
        /\ \E secret \in RawSecrets : k = Sha256Hex(secret)

\* C20: verifyApiKey(secret) returns a record exactly when one is stored
\* under the hash of secret, is active and is not past its expiresAt; it
\* then sets the record's lastUsedAt and returns the record with its scopes,
\* and otherwise it returns null and leaves all records as they were.
C20_VerifyExactlyStoredActiveUnexpired ==
    [][keyRet'.op = "verifyApiKey"
       => LET h == Sha256Hex(keyRet'.apiKey)
              ok == /\ h \in DOMAIN apiKeys
                    /\ apiKeys[h].active
                    /\ (apiKeys[h].expiresAt = Null \/ now <= apiKeys[h].expiresAt)
          IN  /\ keyRet'.found = ok
              /\ ok => /\ apiKeys' = [apiKeys EXCEPT ![h].lastUsedAt = now]
                       /\ keyRet'.keyData = apiKeys'[h]
                       /\ keyRet'.keyData.scopes = apiKeys[h].scopes
              /\ ~ok => /\ apiKeys' = apiKeys
                        /\ keyRet'.keyData = NoKeyData]_vars

\* verifyApiKey has just accepted a key at the very instant of its expiresAt
\* and stamped its lastUsedAt.
C20_Witness ==
    /\ keyRet.op = "verifyApiKey"
    /\ keyRet.found
    /\ keyRet.keyData.expiresAt = keyRet.at
    /\ apiKeys[Sha256Hex(keyRet.apiKey)].lastUsedAt = keyRet.at
    /\ keyRet.keyData.scopes = {"read", "write"}

\* C21: revokeApiKey(id) sets active to false and stamps revokedAt on the
\* record of that id and deletes nothing; verifyApiKey of a revoked key's
\* secret fails in every later state (a record never becomes active again),
\* and no step of generate, verify or revoke removes a record.
C21_RevokedKeyStaysRefused ==
    /\ []( keyRet.op = "verifyApiKey"
           => LET h == Sha256Hex(keyRet.apiKey)
              IN  (h \in DOMAIN apiKeys /\ apiKeys[h].revokedAt # Null) => ~keyRet.found )
    /\ [][ /\ DOMAIN apiKeys \subseteq DOMAIN apiKeys'
           /\ \A k \in DOMAIN apiKeys :
                 /\ apiKeys'[k].id = apiKeys[k].id
                 /\ ~apiKeys[k].active => ~apiKeys'[k].active
                 /\ apiKeys[k].revokedAt # Null => apiKeys'[k].revokedAt # Null
           /\ keyRet'.op = "revokeApiKey"
              => \A k \in DOMAIN apiKeys :
                    IF apiKeys[k].id = keyRet'.keyId
                    THEN apiKeys'[k] = [apiKeys[k] EXCEPT !.active = FALSE, !.revokedAt = now]
                    ELSE apiKeys'[k] = apiKeys[k] ]_vars

\* verifyApiKey has just refused the secret of a key that was revoked at an
\* earlier instant and has no expiresAt, while its record is still stored.
C21_Witness ==
    /\ keyRet.op = "verifyApiKey"
    /\ keyRet.apiKey = SecretOf(1)
    /\ ~keyRet.found
    /\ Sha256Hex(SecretOf(1)) \in DOMAIN apiKeys
    /\ apiKeys[Sha256Hex(SecretOf(1))].expiresAt = Null
    /\ apiKeys[Sha256Hex(SecretOf(1))].revokedAt # Null
    /\ apiKeys[Sha256Hex(SecretOf(1))].revokedAt < keyRet.at

\* C22: hasScope(record, s) is true exactly when record.scopes contains s or
\* '*', and a request passes requireScope(s) only when an API key is
\* attached to it whose scopes contain s or '*'.
C22_ScopeOrWildcard ==
    /\ \A k \in DOMAIN apiKeys : \A s \in RequiredScopes \cup {"*"} :
           hasScope(apiKeys[k], s) = (s \in apiKeys[k].scopes \/ "*" \in apiKeys[k].scopes)
    /\ (keyRet.op \in {"scopedRequest", "requireScope"} /\ keyRet.next)
       => ( /\ keyRet.keyData # NoKeyData
            /\ keyRet.scope \in keyRet.keyData.scopes \/ "*" \in keyRet.keyData.scopes )
    /\ (keyRet.op = "scopedRequest" /\ keyRet.found /\ ~keyRet.next)
       => ( /\ keyRet.status = 403
            /\ keyRet.scope \notin keyRet.keyData.scopes
            /\ "*" \notin keyRet.keyData.scopes )

\* A request with a wildcard key has just passed requireScope('write').
C22_Witness ==
    /\ keyRet.op = "scopedRequest"
    /\ keyRet.next
    /\ keyRet.scope = "write"
    /\ keyRet.keyData.scopes = {"*"}

\* C23 as stated: when a run of autoRefreshSquareTokens has ended, every
\* merchant whose square record was in the store when the run started has had
\* a getAccessToken call in that run.
C23_EveryStartedMerchantAttempted ==
    sweep.pc = "idle" => sweepLog.started \subseteq sweepLog.attempted

\* C23: when a run of autoRefreshSquareTokens has ended, every merchant whose
\* square record was in the store when the run started has had a
\* getAccessToken call in that run or had its record removed during the run,
\* also when calls for earlier merchants failed; a run that has not ended
\* waits for nothing but the answer to the refresh request of its current call.
C23_SweepContinuesOnError ==
    /\ sweep.pc = "idle"
          => sweepLog.started \subseteq (sweepLog.attempted \cup sweepLog.gone)
    /\ sweep.pc = "awaiting" => InFlight(gat[SweepCaller])

\* A run over m1 and m2 has ended in which the refresh for m1 was refused by
\* the token endpoint and m2, stored after m1, got its call nonetheless.
C23_Witness ==
    /\ sweep.pc = "idle"
    /\ sweepLog.started = {"m1", "m2"}
    /\ sweepLog.failed = {"m1"}
    /\ sweepLog.attempted = {"m1", "m2"}
    /\ sweepLog.gone = {}
    /\ MapHas(tokenStore, KeyOf("square", "m1"))
    /\ MapHas(tokenStore, KeyOf("square", "m2"))
    /\ MapIndex(tokenStore, KeyOf("square", "m1")) < MapIndex(tokenStore, KeyOf("square", "m2"))
    /\ MapGet(tokenStore, KeyOf("square", "m2")).expiresAt = 2 * 24 * 60 * 60 * 1000

Plaintexts == UNION {{AccessTokenOf(n), RefreshTokenOf(n)} : n \in 0..MaxIssued}

\* A stored field that is null or an envelope of encrypt: it is none of the
\* plaintext tokens, and decrypt opens it to one of them.
EncryptedOrNull(field) ==
    \/ field = NoToken
    \/ /\ field \notin Plaintexts
       /\ decrypt(field) \in Plaintexts

\* C25: in every state each record of the token store holds its access token
\* and its refresh token encrypted or null, never as the plaintext that was
\* passed to storeTokens or returned by a refresh.
C25_TokensStoredEncrypted ==
    \A i \in 1..Len(tokenStore) :
        /\ EncryptedOrNull(tokenStore[i].accessToken)
        /\ EncryptedOrNull(tokenStore[i].refreshToken)

\* A refresh has just stored the pair the token endpoint answered with, and a
\* record without a refresh token is in the store as well.
C25_Witness ==
    /\ \E i \in 1..Len(tokenStore) :
           /\ tokenStore[i].accessToken # NoToken
           /\ decrypt(tokenStore[i].accessToken) = AccessTokenOf(1)
           /\ decrypt(tokenStore[i].refreshToken) = RefreshTokenOf(1)
    /\ \E i \in 1..Len(tokenStore) :
           /\ tokenStore[i].accessToken # NoToken
           /\ tokenStore[i].refreshToken = NoToken

\* C26 as stated: the step in which processEvent handles an
\* 'oauth.authorization.revoked' event for merchant m leaves no record for
\* ('square', m) in the token store.
C26_RevocationRemovesRecord ==
    [][ ( /\ immediateQueue # << >>
          /\ Head(immediateQueue).type = OAuthRevoked
          /\ Dispatches(processedEvents, Head(immediateQueue))
          /\ immediateQueue' = Tail(immediateQueue) )
        => ~MapHas(tokenStore', KeyOf("square", EventMerchant)) ]_vars

\* C27 as stated: with a run of autoRefreshSquareTokens every seven days,
\* every refresh succeeding and no request traffic, the clock is never past
\* the expiresAt of a stored square record.
C27_StoredTokenNeverExpired ==
    \A i \in 1..Len(tokenStore) :
        tokenStore[i].platform = "square" => now <= tokenStore[i].expiresAt

\* C28 as stated: once the server has been told to shut down, no run of
\* autoRefreshSquareTokens begins.
C28_NoRunAfterShutdown ==
    [][ lifecycle # "running"
          => ~(sweep.pc = "idle" /\ sweep'.pc = "awaiting") ]_vars

\* C29 as stated: decrypt of a string that differs from an encrypt output in
\* one character, or is a truncation of it, fails with 'Decryption failed'.
C29_ChangedEnvelopeFails ==
    box.pc = "done" => box.result = DecryptionFailed

\* C29: decrypt of a string that differs from an encrypt output in one
\* character, or is a truncation of it, fails with 'Decryption failed' when
\* the string decodes to other bytes than the output does; when it decodes to
\* the same bytes (only padding or the unused bits of the last digit differ)
\* decrypt returns the plaintext that was encrypted, and for the empty string
\* it returns null.  It never returns an altered or partial plaintext.
C29_ChangedBytesFail ==
    box.pc = "done" =>
        /\ box.result \in {DecryptionFailed, NoToken, box.plaintext}
        /\ box.result = NoToken <=> box.presented = << >>
        /\ box.result = box.plaintext
              <=> ( /\ box.presented # << >>
                    /\ Base64Decode(box.presented) = Base64Decode(box.opaque) )

\* decrypt has just refused an envelope with one character of its ciphertext
\* part changed, and one cut inside its ciphertext part.
C29_Witness ==
    /\ box.pc = "done"
    /\ box.result = DecryptionFailed
    /\ box.plaintext = << 65, 48, 49 >>
    /\ box.at = 45
    /\ Len(Base64Decode(box.presented)) > IV_LENGTH + AUTH_TAG_LENGTH

\* The step just taken was revokeAllUserTokens(u) or a changePassword of u
\* that answered 200.
RevokedAllFor(u) ==
    /\ jwtRet'.user = u
    /\ \/ jwtRet'.op = "revokeAllUserTokens"
       \/ jwtRet'.op = "changePassword" /\ jwtRet'.status = 200

\* C30: after a successful changePassword, or a revokeAllUserTokens, for user
\* u, refreshAccessToken rejects every refresh token issued to u before it,
\* and a refresh token that is out of the registry is rejected in every later
\* state; the registry entries of the other users are as they were, and the
\* tokens of the other users are answered as before.  A changePassword that
\* fails leaves the registry as it was.
C30_RevokeAllRejectsOnlyOwnTokens ==
    /\ [][\A u \in JwtUsers : RevokedAllFor(u) =>
             /\ \A token \in jwtIssued :
                    (token.type = "refresh" /\ token.userId = u)
                        => refreshAccessToken(refreshTokenStore', token, now').outcome
                              = "throws"
             /\ \A j \in DOMAIN refreshTokenStore :
                    refreshTokenStore[j].userId # u
                        => /\ j \in DOMAIN refreshTokenStore'
                           /\ refreshTokenStore'[j] = refreshTokenStore[j]
             /\ DOMAIN refreshTokenStore' \subseteq DOMAIN refreshTokenStore
             /\ \A token \in jwtIssued :
                    token.userId # u
                        => refreshAccessToken(refreshTokenStore', token, now')
                              = refreshAccessToken(refreshTokenStore, token, now)]_vars
    /\ [][(jwtRet'.op = "changePassword" /\ jwtRet'.status # 200)
             => refreshTokenStore' = refreshTokenStore]_vars
    /\ [](\A token \in jwtIssued :
             (token.type = "refresh" /\ token.jti \notin DOMAIN refreshTokenStore)
                 => refreshAccessToken(refreshTokenStore, token, now).outcome = "throws")
    /\ [][\A token \in jwtIssued :
             token.jti \notin DOMAIN refreshTokenStore
                 => token.jti \notin DOMAIN refreshTokenStore']_vars

\* changePassword of u1 has just answered 200: a refresh token of u1 that is
\* still valid is out of the registry, the entry of u2 is in it.
C30_Witness ==
    /\ jwtRet.op = "changePassword"
    /\ jwtRet.status = 200
    /\ jwtRet.user = "u1"
    /\ \E token \in jwtIssued :
           /\ token.type = "refresh"
           /\ token.userId = "u1"
           /\ ValidUnexpired(token, now)
           /\ token.jti \notin DOMAIN refreshTokenStore
    /\ \E j \in DOMAIN refreshTokenStore : refreshTokenStore[j].userId = "u2"

\* C31: with no signature key configured verifySignature returns true for
\* every body and every signature, a missing one included, and every such
\* call logs the warning: a request whose body parses is answered 200 and
\* adds one warning to the log.
C31_BypassIsNeverSilent ==
    /\ [](SIGNATURE_KEY = NoKey =>
             \A body \in Bodies : \A signature \in SignaturesFor(body) :
                 /\ verifySignature(SIGNATURE_KEY, body, signature) = TRUE
                 /\ verifySignatureWarns(SIGNATURE_KEY, body, signature))
    /\ [][(SIGNATURE_KEY = NoKey /\ deliveries' = deliveries + 1
                /\ JsonParse(request'.body).ok)
             => (response'.status = 200 /\ warnings' = warnings + 1)]_vars
    /\ [][warnings' >= warnings]_vars

\* With no key configured, a request without a signature header has just been
\* answered 200, and it was not the first to log the warning.
C31_Witness ==
    /\ SIGNATURE_KEY = NoKey
    /\ request # NoRequest
    /\ request.signature = NoSignature
    /\ response.status = 200
    /\ warnings = 2

\* C32: one getAccessToken call sends at most one refresh request: a request
\* goes out only as a call starts, and the step in which the answer reaches
\* the call ends it, with 'Access token expired and refresh failed' when the
\* refresh failed; the sweep, after a failed call, goes on to a later entry.
C32_OneRefreshPerCall ==
    /\ [][\A c \in Callers \ {SweepCaller} :
             /\ (gat'[c].pc = "refreshing" /\ gat[c] # gat'[c]) => ~InFlight(gat[c])
             /\ gat[c].pc = "responded" /\ gat'[c] # gat[c]
                   => /\ ~InFlight(gat'[c])
                      /\ ret'.op = "getAccessToken"
                      /\ ret'.awaited
                      /\ ~gat[c].resp.ok
                            => /\ ret'.outcome = "threw"
                               /\ ret'.message = "Access token expired and refresh failed"]_vars
    /\ [][(gat[SweepCaller].pc = "responded" /\ gat'[SweepCaller].pc = "refreshing")
             => sweep'.pos > sweep.pos]_vars

\* A getAccessToken call has just thrown after its one refresh failed, and no
\* call is waiting for the token endpoint.
C32_Witness ==
    /\ ret.op = "getAccessToken"
    /\ ret.awaited
    /\ ret.outcome = "threw"
    /\ ret.message = "Access token expired and refresh failed"
    /\ \A c \in Callers : ~InFlight(gat[c])

\* C33 as stated: when a refresh that getAccessToken('square', m) started has
\* succeeded, the record at ('square', m) holds the tokens and the expiresAt
\* of the response, whatever merchant id the response carries, and a
\* getAccessToken('square', m) made at once returns the new access token
\* with no refresh.
C33_RefreshedRecordIsAtRequestedKey ==
    [][\A c \in Callers :
          (gat[c].pc = "responded" /\ gat[c].resp.ok /\ gat'[c] # gat[c])
          => /\ MapHas(tokenStore', KeyOf("square", gat[c].merchantId))
             /\ LET rec == MapGet(tokenStore', KeyOf("square", gat[c].merchantId))
                IN  /\ decrypt(rec.accessToken) = gat[c].resp.accessToken
                    /\ decrypt(rec.refreshToken) = gat[c].resp.refreshToken
                    /\ rec.expiresAt = gat[c].resp.expiresAt
             /\ LET again == GetAccessTokenStart(tokenStore', "square",
                                                 gat[c].merchantId, now')
                IN  /\ again.pc = "returned"
                    /\ again.result = gat[c].resp.accessToken]_vars

\* C34 as stated: the step in which a refresh completes creates no record: a
\* key that has no record when the answer reaches getAccessToken, its record
\* having been removed while the refresh was in flight, has none afterwards
\* and getAccessToken for it still throws 'No tokens found'.
C34_RefreshCreatesNoRecord ==
    [][\A c \in Callers :
          (gat[c].pc = "responded" /\ gat'[c] # gat[c])
          => \A m \in Merchants :
                ~MapHas(tokenStore, KeyOf("square", m))
                => /\ ~MapHas(tokenStore', KeyOf("square", m))
                   /\ GetAccessTokenStart(tokenStore', "square", m, now').pc = "threw"]_vars

\* The serial number of the answer of the token endpoint that issued a token
\* (0: the pair storeTokens was called with).
IssueNumber(token) == token[2] - 48

\* C35 as stated: a refresh that completes never replaces the refresh token
\* of its key by one the platform issued earlier than the one stored.
C35_LaterPairNeverOverwritten ==
    [][\A c \in Callers :
          ( /\ gat[c].pc = "responded" /\ gat[c].resp.ok /\ gat'[c] # gat[c]
            /\ MapHas(tokenStore, KeyOf("square", gat[c].resp.merchantId))
            /\ MapGet(tokenStore, KeyOf("square", gat[c].resp.merchantId)).refreshToken
                  # NoToken )
          => LET key == KeyOf("square", gat[c].resp.merchantId)
             IN  IssueNumber(decrypt(MapGet(tokenStore', key).refreshToken))
                    >= IssueNumber(decrypt(MapGet(tokenStore, key).refreshToken))]_vars

\* The step taken runs processEvent for the oldest queued event.
ProcessEventStep == immediateQueue # << >> /\ started' = started + 1

\* C36 as stated: processEvent adds an event_id to processedEvents only when
\* a handler was entered for the event and returned without an error.
C36_RecordedOnlyAfterHandler ==
    [][ProcessEventStep =>
          \A id \in EventIds :
             (SetHas(processedEvents', id) /\ ~SetHas(processedEvents, id))
             => /\ id = Head(immediateQueue).event_id
                /\ HandlerEntered(Head(immediateQueue))
                /\ ~HandlerThrows(Head(immediateQueue))]_vars

\* C36: processEvent adds an event_id to processedEvents only when the
\* dispatch of that event ended without an error: its handler returned, or
\* its type has no handler.  When evaluating the handler's argument or the
\* handler throws, the id is not recorded, and a later delivery of the event
\* enters the handler again.
C36_RecordedOnlyWithoutError ==
    [][ProcessEventStep =>
          LET event == Head(immediateQueue)
          IN  /\ \A id \in EventIds :
                    (SetHas(processedEvents', id) /\ ~SetHas(processedEvents, id))
                    => /\ id = event.event_id
                       /\ ~ArgumentThrows(event)
                       /\ ~HandlerThrows(event)
                       /\ HandlerEntered(event) \/ event.type = UnhandledType
              /\ (ArgumentThrows(event) \/ HandlerThrows(event))
                    => processedEvents' = processedEvents
              /\ (~SetHas(processedEvents, event.event_id)
                     /\ event.type = OrderCreated /\ event.data # WithoutObject)
                    => handled'[event.event_id] = handled[event.event_id] + 1]_vars

\* The event whose handler throws was delivered and dispatched twice, and its
\* id is not in processedEvents.
C36_Witness ==
    /\ handled[1002] = 2
    /\ ~SetHas(processedEvents, 1002)
    /\ immediateQueue = << >>

\* C37: when the exchange of a callback that passed the state validation
\* fails, the request is answered 500 'Token exchange failed', tokenStore is
\* left as it was, and the state is out of csrfTokens, so that a callback
\* with the same state is answered 400 'Invalid state parameter'.
C37_FailedExchangeConsumesState ==
    [][\A c \in CallbackIds :
          (cb[c].pc = "responded" /\ ~cb[c].resp.ok /\ cb'[c] = IdleCallback)
          => /\ ret'.op = "callback"
             /\ ret'.state = cb[c].state
             /\ ret'.awaited
             /\ ret'.status = 500
             /\ ret'.message = "Token exchange failed"
             /\ tokenStore' = tokenStore
             /\ cb[c].state \notin DOMAIN csrfTokens'
             /\ CallbackStart(csrfTokens', cb[c].state, "").pc = "done"
             /\ CallbackStart(csrfTokens', cb[c].state, "").status = 400
             /\ CallbackStart(csrfTokens', cb[c].state, "").body
                   = "Invalid state parameter"]_vars

\* A callback whose exchange failed was answered while the vault held a
\* record, and its state is no longer pending.
C37_Witness ==
    /\ ret.op = "callback"
    /\ ret.awaited
    /\ ret.status = 500
    /\ exchanged[ret.state] = 1
    /\ ret.state \notin DOMAIN csrfTokens
    /\ tokenStore # << >>

\* C38 as stated: the step in which a successful refresh is stored writes
\* accessToken, refreshToken and expiresAt of the response into one record,
\* leaves every other record as it was, and the record it writes keeps the
\* restaurantId it had before the step.
C38_RefreshKeepsRestaurant ==
    [][\A c \in Callers :
          (gat[c].pc = "responded" /\ gat[c].resp.ok /\ gat'[c] # gat[c])
          => LET key == KeyOf("square", gat[c].resp.merchantId)
             IN  /\ MapHas(tokenStore', key)
                 /\ decrypt(MapGet(tokenStore', key).accessToken)
                       = gat[c].resp.accessToken
                 /\ decrypt(MapGet(tokenStore', key).refreshToken)
                       = gat[c].resp.refreshToken
                 /\ MapGet(tokenStore', key).expiresAt = gat[c].resp.expiresAt
                 /\ \A i \in DOMAIN tokenStore :
                       tokenStore[i].key # key
                       => (MapHas(tokenStore', tokenStore[i].key)
                           /\ MapGet(tokenStore', tokenStore[i].key) = tokenStore[i])
                 /\ MapHas(tokenStore, key)
                       => MapGet(tokenStore', key).restaurantId
                            = MapGet(tokenStore, key).restaurantId]_vars

\* C39 as stated: when DEFAULT_API_KEY is configured, a call
\* verifyApiKey(DEFAULT_API_KEY) returns the record 'key_default' with the
\* scopes read, write and webhooks.
C39_DefaultKeyVerifies ==
    (DEFAULT_API_KEY # NoSecret /\ keyRet.op = "verifyApiKey"
        /\ keyRet.apiKey = DEFAULT_API_KEY)
    => /\ keyRet.found
       /\ keyRet.keyData.id = "key_default"
       /\ keyRet.keyData.scopes = {"read", "write", "webhooks"}

\* C40 as stated: a revokeRefreshToken that is given a token whose signature
\* does not verify under JWT_SECRET leaves refreshTokenStore unchanged, also
\* when the token names the jti of an existing entry.
C40_RevokeNeedsValidSignature ==
    [][(jwtRet'.op = "revokeRefreshToken"
          /\ jwtRet'.token.sig # JwtHmac(JWT_SECRET, jwtRet'.token))
       => refreshTokenStore' = refreshTokenStore]_vars

====
